---- MODULE Spec2Model ----
(***************************************************************************)
(* Model of scripts/generate-stats.py: the per-repository commit cache,    *)
(* the two commit sources (local git log first, GitHub API as fallback),   *)
(* the stale-cache cleanup and the per-commit statistics.                  *)
(*                                                                         *)
(* Representation                                                          *)
(*   sha         a natural 1..MaxSha stands for a commit hash; 0 is the    *)
(*               empty / missing sha.                                      *)
(*   timestamp   a natural stands for an ISO-8601 string; the code only    *)
(*               ever compares timestamps as strings, and < on naturals    *)
(*               stands for that string order.  0 is the empty string.     *)
(*   url         the sequence of "/"-separated segments of the commit url. *)
(*   filename    a sequence of one-character strings.                      *)
(*   dict        a function whose DOMAIN is the set of keys.               *)
(***************************************************************************)
EXTENDS Integers, Sequences, FiniteSets, TLC

(***************************************************************************)
(* Bounds of the model.                                                    *)
(***************************************************************************)
MaxSha == 3
\* The shas of the runs over repositories of two owners are 1..MaxSharedSha.
MaxSharedSha == 2
MaxCommits == 2
MaxFiles == 3

Shas == 1..MaxSha
NoSha == 0
EmptyStr == 0

\* Wall-clock value returned by datetime.now(): later than every authorship date.
NowTs == MaxSha + 1

Identities == {"id1", "id2"}
Owners == {"own"}
RepoNames == {"repo"}

EmptyDict == [k \in {} |-> <<>>]

\* A cache file that does not exist.
NoFile == [exists |-> FALSE]

\* A cache file whose content json.load rejects: an empty or cut-off
\* document, or any other text that is not JSON.
InvalidJson == [exists |-> TRUE, shape |-> "invalid"]

\* A cache file that exists and cannot be opened or read (OSError).
Unreadable == [exists |-> TRUE, shape |-> "unreadable"]

\* A cache file holding valid JSON that is not an object, e.g. [].
JsonArray == [exists |-> TRUE, shape |-> "array"]

\* A cache file holding the object {"_metadata": [], "data": {}}.
MetadataArray == [exists |-> TRUE, shape |-> "metadata_array"]

\* A cache file holding the object {}: no "_metadata", no "data".
EmptyObject == [exists |-> TRUE, shape |-> "empty_object"]

(***************************************************************************)
(* Generic helpers.                                                        *)
(***************************************************************************)
Range(s) == {s[i] : i \in 1..Len(s)}

RECURSIVE SeqSum(_)
SeqSum(s) == IF s = <<>> THEN 0 ELSE Head(s) + SeqSum(Tail(s))

RECURSIVE SelectSeqOf(_, _)
\* list comprehension [x for x in s if x \in keep]
SelectSeqOf(s, keep) ==
    IF s = <<>> THEN <<>>
    ELSE IF Head(s) \in keep THEN <<Head(s)>> \o SelectSeqOf(Tail(s), keep)
         ELSE SelectSeqOf(Tail(s), keep)

\* All sequences over S of length at most n.
SeqsUpTo(S, n) == UNION {[1..k -> S] : k \in 0..n}

(***************************************************************************)
(* Constants of the program.                                               *)
(***************************************************************************)
IMAGE_EXTENSIONS ==
    { <<".", "p", "n", "g">>, <<".", "j", "p", "g">>, <<".", "j", "p", "e", "g">>,
      <<".", "g", "i", "f">>, <<".", "b", "m", "p">>, <<".", "s", "v", "g">>,
      <<".", "w", "e", "b", "p">>, <<".", "i", "c", "o">> }

\* str.lower() on the characters that occur in the modelled file names.
LowerChar(c) ==
    CASE c = "L" -> "l" [] c = "O" -> "o" [] c = "G" -> "g"
      [] c = "P" -> "p" [] c = "N" -> "n" [] OTHER -> c

lower(name) == [i \in 1..Len(name) |-> LowerChar(name[i])]

endswith(name, ext) ==
    /\ Len(name) >= Len(ext)
    /\ SubSeq(name, Len(name) - Len(ext) + 1, Len(name)) = ext

\* Mutant of is_image_file: the name is not lowered before the comparison.
is_image_file_CaseSensitive(filename) ==
    \E ext \in IMAGE_EXTENSIONS : endswith(filename, ext)

is_image_file(filename) == \E ext \in IMAGE_EXTENSIONS : endswith(lower(filename), ext)

(***************************************************************************)
(* The repository's history as the environment holds it: the authorship    *)
(* date of a commit and the files it changes are functions of its content, *)
(* hence of its sha.  Shas 2k and 2k+1 share an authorship date (a rebased *)
(* commit keeps its author date under a new sha).                          *)
(***************************************************************************)
TsOf(sha) == (sha \div 2) + 1

LogoPng == <<"l", "o", "g", "o", ".", "p", "n", "g">>
LogoPngUpper == <<"L", "O", "G", "O", ".", "P", "N", "G">>
ReadmeMd == <<"r", "e", "a", "d", "m", "e", ".", "m", "d">>

\* A line-count field as text: digits, or "-" for a binary file.  The value
\* is what int() gives for digits.
Num(n) == [kind |-> "int", value |-> n]
Dash == [kind |-> "dash", value |-> 0]

\* One changed file of a commit: its path, how it changed, whether git and
\* GitHub treat it as binary, and its added and removed lines.
Change(filename, change, binary, plus, minus) ==
    [filename |-> filename, change |-> change, binary |-> binary,
     plus |-> plus, minus |-> minus]

\* The files each commit changes.
ChangesOf(sha) ==
    IF sha % 2 = 1
    THEN << Change(IF sha % 4 = 1 THEN LogoPng ELSE LogoPngUpper, "added", TRUE, 0, 0),
            Change(ReadmeMd, "modified", FALSE, sha + 2, 1) >>
    ELSE << Change(ReadmeMd, "modified", FALSE, sha, 0),
            Change(LogoPng, "modified", TRUE, 0, 0) >>

\* A renamed file: the path it had before, and the path as --numstat shows it.
OldPath(filename) == <<"o", "l", "d", "/">> \o filename
ArrowPath(filename) == OldPath(filename) \o <<" ", "=", ">", " ">> \o filename

\* The lines of `git show --name-status --pretty=""`, each split at the tabs.
NameStatusLines(changes) ==
    [i \in 1..Len(changes) |->
        CASE changes[i].change = "added" -> <<"A", changes[i].filename>>
          [] changes[i].change = "modified" -> <<"M", changes[i].filename>>
          [] OTHER -> <<"R100", OldPath(changes[i].filename), changes[i].filename>>]

\* The lines of `git show --numstat --pretty=""`, each split at the tabs.
NumstatLines(changes) ==
    [i \in 1..Len(changes) |->
        << IF changes[i].binary THEN Dash ELSE Num(changes[i].plus),
           IF changes[i].binary THEN Dash ELSE Num(changes[i].minus),
           IF changes[i].change = "renamed" THEN ArrowPath(changes[i].filename)
           ELSE changes[i].filename >>]

\* The "files" member of the API's commit detail.
ApiFiles(changes) ==
    [i \in 1..Len(changes) |->
        [filename |-> changes[i].filename,
         status |-> changes[i].change,
         additions |-> Num(IF changes[i].binary THEN 0 ELSE changes[i].plus),
         deletions |-> Num(IF changes[i].binary THEN 0 ELSE changes[i].minus)]]

FilesOf(sha) == ApiFiles(ChangesOf(sha))

\* A commit object as both sources build it: {"sha": ..., "commit": {"author": {"date": ...}}}
CommitObj(sha) == [sha |-> sha, date |-> TsOf(sha)]

\* Lists of commit objects a source can return.
CommitLists == {[i \in 1..Len(s) |-> CommitObj(s[i])] : s \in SeqsUpTo(Shas, MaxCommits)}

(***************************************************************************)
(* Cache records.  A CommitData cache item is                              *)
(*   {index, url, additions, deletions, images, timestamp}.                *)
(***************************************************************************)
\* f"https://github.com/{owner}/{repo_name}/commit/{sha}", as its "/"-separated segments.
CommitUrl(owner, repo_name, sha) ==
    <<"https:", "", "github.com", owner, repo_name, "commit", sha>>

\* url.split("/")[-1] if url else ""
extract_sha_from_cache_item(item) ==
    IF item.url = <<>> THEN NoSha ELSE item.url[Len(item.url)]

\* The part of a record that save_cache does not renumber.
Content(item) == [url |-> item.url, additions |-> item.additions,
                  deletions |-> item.deletions, images |-> item.images,
                  timestamp |-> item.timestamp]

StatsOfItem(item) == <<item.additions, item.deletions, item.images>>

\* How many items of the list have the given content.
CountContent(items, c) == Cardinality({i \in 1..Len(items) : Content(items[i]) = c})

\* The records of a list as a multiset: each content with its multiplicity.
ContentBag(items) ==
    {<<Content(items[i]), CountContent(items, Content(items[i]))>> : i \in 1..Len(items)}

\* The two lists hold the same records, as multisets, index aside.
SameRecords(a, b) ==
    /\ Len(a) = Len(b)
    /\ \A i \in 1..Len(a) : CountContent(a, Content(a[i])) = CountContent(b, Content(a[i]))

DictItems(cache_data, key) == IF key \in DOMAIN cache_data THEN cache_data[key] ELSE <<>>

DictSet(cache_data, key, value) ==
    [k \in (DOMAIN cache_data) \cup {key} |-> IF k = key THEN value ELSE cache_data[k]]

DictDel(cache_data, key) == [k \in (DOMAIN cache_data) \ {key} |-> cache_data[k]]

(***************************************************************************)
(* calculate_cache_statistics, sort_and_reindex_commits, load_cache,       *)
(* save_cache.                                                             *)
(***************************************************************************)
RECURSIVE DictFold(_, _, _)
\* Sum of f(commits) over the values of the dict restricted to keys.
DictFold(cache_data, keys, field) ==
    IF keys = {} THEN 0
    ELSE LET k == CHOOSE x \in keys : TRUE
             commits == cache_data[k]
             here == CASE field = "commits" -> Len(commits)
                       [] field = "additions" ->
                            SeqSum([i \in 1..Len(commits) |-> commits[i].additions])
                       [] field = "deletions" ->
                            SeqSum([i \in 1..Len(commits) |-> commits[i].deletions])
                       [] OTHER ->
                            SeqSum([i \in 1..Len(commits) |-> commits[i].images])
         IN here + DictFold(cache_data, keys \ {k}, field)

\* Mutant of calculate_cache_statistics: total_commits counts the keys.
calculate_cache_statistics_CountsKeys(cache_data) ==
    [total_commits |-> Cardinality(DOMAIN cache_data),
     total_additions |-> DictFold(cache_data, DOMAIN cache_data, "additions"),
     total_deletions |-> DictFold(cache_data, DOMAIN cache_data, "deletions"),
     total_images |-> DictFold(cache_data, DOMAIN cache_data, "images")]

calculate_cache_statistics(cache_data) ==
    [total_commits |-> DictFold(cache_data, DOMAIN cache_data, "commits"),
     total_additions |-> DictFold(cache_data, DOMAIN cache_data, "additions"),
     total_deletions |-> DictFold(cache_data, DOMAIN cache_data, "deletions"),
     total_images |-> DictFold(cache_data, DOMAIN cache_data, "images")]

\* Mutant of SortedPos: the list is left in the order it has.
SortedPos_Unsorted(commits, j) == j

\* Mutant of SortedPos: an unstable sort, equal keys come out reversed.
SortedPos_TiesReversed(commits, j) ==
    Cardinality({k \in 1..Len(commits) :
                    \/ commits[k].timestamp < commits[j].timestamp
                    \/ commits[k].timestamp = commits[j].timestamp /\ k >= j})

\* Position of commits[j] in sorted(commits, key=lambda x: str(x.get("timestamp", ""))):
\* ascending by timestamp, and stable (equal keys keep their order).
SortedPos(commits, j) ==
    Cardinality({k \in 1..Len(commits) :
                    \/ commits[k].timestamp < commits[j].timestamp
                    \/ commits[k].timestamp = commits[j].timestamp /\ k <= j})

SortedByTimestamp(commits) ==
    [p \in 1..Len(commits) |->
        commits[CHOOSE j \in 1..Len(commits) : SortedPos(commits, j) = p]]

Reindexed(commits) == [i \in 1..Len(commits) |-> [commits[i] EXCEPT !.index = i]]

sort_and_reindex_commits(cache_data) ==
    [k \in DOMAIN cache_data |-> Reindexed(SortedByTimestamp(cache_data[k]))]

\* The document json.dump writes.
save_cache(cache_data) ==
    LET sorted_cache_data == sort_and_reindex_commits(cache_data)
    IN [exists |-> TRUE,
        shape |-> "document",
        metadata |-> calculate_cache_statistics(sorted_cache_data),
        data |-> sorted_cache_data]

\* Mutant of load_cache: a member the document does not have is read.
load_cache_WrongKey(doc) == EmptyDict

\* What load_cache returns when it returns.  OSError (no file, unreadable
\* file) and JSONDecodeError are caught: the cache is empty.  Otherwise
\* cache_data.get("data", {}).
load_cache(doc) ==
    IF ~doc.exists THEN EmptyDict
    ELSE IF doc.shape = "document" THEN doc.data
    ELSE EmptyDict

\* Whether load_cache lets an exception out: cache_data.get on a value that
\* is no dict, or metadata.get on a "_metadata" that is no dict, raises
\* AttributeError, which the except clause does not name.
load_cache_raises(doc) ==
    IF ~doc.exists THEN FALSE ELSE doc.shape \in {"array", "metadata_array"}

(***************************************************************************)
(* clean_stale_cache and its helpers.                                      *)
(***************************************************************************)
SetMin(S) == CHOOSE x \in S : \A y \in S : x <= y
SetMax(S) == CHOOSE x \in S : \A y \in S : x >= y

\* (sha_set, min_timestamp, max_timestamp) of the current commits; commits
\* without a date do not take part in the range.
_extract_commit_timestamps(commits) ==
    LET dates == {commits[i].date : i \in 1..Len(commits)} \ {EmptyStr}
    IN [sha_set |-> {commits[i].sha : i \in 1..Len(commits)},
        min_ts |-> IF dates = {} THEN EmptyStr ELSE SetMin(dates),
        max_ts |-> IF dates = {} THEN EmptyStr ELSE SetMax(dates)]

\* Mutant of OutOfRange: item_ts <= min_timestamp.
OutOfRange_Inclusive(item, min_timestamp, max_timestamp, is_api_fallback) ==
    /\ is_api_fallback
    /\ min_timestamp # EmptyStr
    /\ max_timestamp # EmptyStr
    /\ item.timestamp <= min_timestamp

\* Mutant of OutOfRange: the source mode is not looked at.
OutOfRange_AnyMode(item, min_timestamp, max_timestamp, is_api_fallback) ==
    /\ min_timestamp # EmptyStr
    /\ max_timestamp # EmptyStr
    /\ item.timestamp < min_timestamp

\* Whether an item is out of the API's range.
OutOfRange(item, min_timestamp, max_timestamp, is_api_fallback) ==
    /\ is_api_fallback
    /\ min_timestamp # EmptyStr
    /\ max_timestamp # EmptyStr
    /\ item.timestamp < min_timestamp

_partition_cached_items(cached_items, min_timestamp, max_timestamp, is_api_fallback) ==
    LET out == {x \in Range(cached_items) :
                    OutOfRange(x, min_timestamp, max_timestamp, is_api_fallback)}
    IN [in_range |-> SelectSeqOf(cached_items, Range(cached_items) \ out),
        out_of_range |-> SelectSeqOf(cached_items, out)]

\* stale_commits = cached_shas_in_range - current_commit_set
StaleCommits(in_range, current_commit_set) ==
    ({extract_sha_from_cache_item(x) : x \in Range(in_range)} \ {NoSha})
        \ current_commit_set

\* Mutant of NewCacheList: the items out of range are forgotten.
NewCacheList_DropsOutOfRange(parts, stale_commits) ==
    SelectSeqOf(parts.in_range,
                {x \in Range(parts.in_range) :
                     extract_sha_from_cache_item(x) \notin stale_commits})

\* new_cache_list: the items out of range, then the items in range that are not stale.
NewCacheList(parts, stale_commits) ==
    parts.out_of_range
        \o SelectSeqOf(parts.in_range,
                       {x \in Range(parts.in_range) :
                            extract_sha_from_cache_item(x) \notin stale_commits})

\* Mutant of StoreCleaned: the key stays, mapped to the empty list.
StoreCleaned_KeepsKey(cache_data, repo_key, new_cache_list) ==
    DictSet(cache_data, repo_key, new_cache_list)

\* cache_data[repo_key] = new_cache_list, and the key is deleted when the list is empty.
StoreCleaned(cache_data, repo_key, new_cache_list) ==
    IF new_cache_list = <<>> THEN DictDel(cache_data, repo_key)
    ELSE DictSet(cache_data, repo_key, new_cache_list)

clean_stale_cache(cache_data, current_commits, repo_key, is_api_fallback) ==
    IF repo_key \notin DOMAIN cache_data THEN cache_data
    ELSE LET cur == _extract_commit_timestamps(current_commits)
             parts == _partition_cached_items(cache_data[repo_key], cur.min_ts,
                                              cur.max_ts, is_api_fallback)
             stale_commits == StaleCommits(parts.in_range, cur.sha_set)
         IN IF stale_commits = {} THEN cache_data
            ELSE StoreCleaned(cache_data, repo_key, NewCacheList(parts, stale_commits))

(***************************************************************************)
(* Commit sources.                                                         *)
(***************************************************************************)
\* What one `git log --author=...` call yields: a return code and the shas of
\* the (sha, date) line pairs of its output.
GitFail == [returncode |-> 1, shas |-> <<>>]
GitOutputs == {GitFail} \cup {[returncode |-> 0, shas |-> s] : s \in SeqsUpTo(Shas, MaxCommits)}

RECURSIVE AppendNewShas_NoDedup(_, _)
\* Mutant of AppendNewShas: a sha already seen is appended again.
AppendNewShas_NoDedup(commits, shas) ==
    IF shas = <<>> THEN commits
    ELSE AppendNewShas_NoDedup(Append(commits, CommitObj(Head(shas))), Tail(shas))

RECURSIVE AppendNewShas(_, _)
\* The inner loop of get_commits_from_git_log: append the commits whose sha
\* has not been seen yet.
AppendNewShas(commits, shas) ==
    IF shas = <<>> THEN commits
    ELSE LET sha == Head(shas)
             seen == {commits[i].sha : i \in 1..Len(commits)}
         IN AppendNewShas(IF sha \in seen THEN commits
                          ELSE Append(commits, CommitObj(sha)),
                          Tail(shas))

\* One iteration of `for author in authors`: a failed call is skipped.
GitLogCall(commits, output) ==
    IF output.returncode # 0 THEN commits ELSE AppendNewShas(commits, output.shas)

RECURSIVE AppendNewPairs_LastWins(_, _, _)
\* Mutant of AppendNewPairs: the commits are kept in a dict keyed by sha, and
\* a sha seen again overwrites its entry.
AppendNewPairs_LastWins(commits, lines, i) ==
    IF i + 1 > Len(lines) THEN commits
    ELSE LET sha == lines[i]
             iso_date == lines[i + 1]
             seen == {commits[k].sha : k \in 1..Len(commits)}
         IN AppendNewPairs_LastWins(
                IF sha \in seen
                THEN [k \in 1..Len(commits) |->
                         IF commits[k].sha = sha THEN [sha |-> sha, date |-> iso_date]
                         ELSE commits[k]]
                ELSE Append(commits, [sha |-> sha, date |-> iso_date]),
                lines, i + 2)

RECURSIVE AppendNewPairs(_, _, _)
\* `for i in range(0, len(lines), 2)` on the stripped, non-empty lines of one
\* git log output: lines[i] is a sha and lines[i + 1] its date; a last line
\* without a partner is skipped, and so is a sha already in all_shas.
AppendNewPairs(commits, lines, i) ==
    IF i + 1 > Len(lines) THEN commits
    ELSE LET sha == lines[i]
             iso_date == lines[i + 1]
             seen == {commits[k].sha : k \in 1..Len(commits)}
         IN AppendNewPairs(IF sha \in seen THEN commits
                           ELSE Append(commits, [sha |-> sha, date |-> iso_date]),
                           lines, i + 2)

RECURSIVE GitLogLoop(_, _)
\* `for author in authors`, outputs being what the git log calls print in
\* the order the authors are visited; a failed call is skipped.
GitLogLoop(commits, outputs) ==
    IF outputs = <<>> THEN commits
    ELSE GitLogLoop(IF Head(outputs).returncode # 0 THEN commits
                    ELSE AppendNewPairs(commits, Head(outputs).lines, 1),
                    Tail(outputs))

\* get_commits_from_git_log with one output per known identity: None when
\* no identity is known or no commit was read, else the list.
get_commits_from_git_log(outputs) ==
    LET commits == GitLogLoop(<<>>, outputs)
    IN IF outputs = <<>> \/ commits = <<>> THEN [none |-> TRUE, commits |-> <<>>]
       ELSE [none |-> FALSE, commits |-> commits]

\* One listing per set of shas, oldest first.
RECURSIVE AscendingList(_)
AscendingList(shas) ==
    IF shas = {} THEN <<>>
    ELSE LET m == CHOOSE x \in shas : \A y \in shas : x <= y
         IN <<CommitObj(m)>> \o AscendingList(shas \ {m})

RemoteViews == {AscendingList(S) : S \in {T \in SUBSET Shas : Cardinality(T) <= MaxCommits}}

\* The authorship date of a commit as the API prints it.  git log prints %aI,
\* the date with the author's UTC offset, and the API prints the same instant
\* in UTC: as strings the two differ, and either can be the greater one.
RemoteDates(sha) == {d \in {TsOf(sha) - 1, TsOf(sha), TsOf(sha) + 1} : d >= 1}

RemoteEntries == UNION {{[sha |-> sha, date |-> d] : d \in RemoteDates(sha)} : sha \in Shas}

\* The listings the API can hold while the git log is read: each sha once,
\* with the date as the API prints it.
RemoteVersions ==
    {l \in SeqsUpTo(RemoteEntries, MaxCommits) :
        \A i, j \in 1..Len(l) : i < j => l[i].sha < l[j].sha}

\* Mutant of get_commits_from_api: each page is put in front of the list.
get_commits_from_api_Reversed(listing, request_ok) ==
    IF request_ok THEN [i \in 1..Len(listing) |-> listing[Len(listing) + 1 - i]]
    ELSE <<>>

\* The commit listing of the API: the listing when the request succeeds, and
\* nothing when it fails.
get_commits_from_api(listing, request_ok) == IF request_ok THEN listing ELSE <<>>

(***************************************************************************)
(* The paged requests to the commits endpoint.                             *)
(***************************************************************************)
PER_PAGE == 100

\* `while page <= 3` of learn_author_identities_from_api.
LearnMaxPages == 3

\* The answer to one page request: the return code of curl, whether the
\* body is JSON, whether the JSON value is a list, its length, and the
\* identities ("Name <email>", both non-empty) of its commits.
ApiPage(len, identities) ==
    [returncode |-> 0, json |-> TRUE, is_list |-> TRUE, len |-> len,
     identities |-> identities]
ApiPageFailed ==
    [returncode |-> 1, json |-> FALSE, is_list |-> FALSE, len |-> 0, identities |-> {}]
ApiPageNotJson ==
    [returncode |-> 0, json |-> FALSE, is_list |-> FALSE, len |-> 0, identities |-> {}]
\* An error answer such as {"message": ..., "documentation_url": ...}: curl -s
\* exits with 0, and the body is a JSON object with two keys.
ApiPageErrorObject ==
    [returncode |-> 0, json |-> TRUE, is_list |-> FALSE, len |-> 2, identities |-> {}]

\* The request failed: transport failure, or a body that does not parse.
PageFailed(response) == response.returncode # 0 \/ ~response.json

RECURSIVE LearnFrom_EmptyOnFailure(_, _, _, _)
\* Mutant of LearnFrom: a failed request discards what the earlier pages gave.
LearnFrom_EmptyOnFailure(responses, page, identities, requested) ==
    IF page > LearnMaxPages
    THEN [identities |-> identities, requested |-> requested, raised |-> FALSE]
    ELSE LET response == responses[page]
             asked == Append(requested, page)
         IN IF response.returncode # 0 \/ ~response.json
            THEN [identities |-> {}, requested |-> asked, raised |-> FALSE]
            ELSE IF response.len = 0
            THEN [identities |-> identities, requested |-> asked, raised |-> FALSE]
            ELSE IF ~response.is_list
            THEN [identities |-> {}, requested |-> asked, raised |-> TRUE]
            ELSE IF response.len < PER_PAGE
            THEN [identities |-> identities \cup response.identities,
                  requested |-> asked, raised |-> FALSE]
            ELSE LearnFrom_EmptyOnFailure(responses, page + 1,
                                          identities \cup response.identities, asked)

RECURSIVE LearnFrom(_, _, _, _)
\* The loop of learn_author_identities_from_api from the given page on;
\* responses[p] is the answer the API gives to a request for page p.  The
\* result is the set returned and the pages requested, in order; or, for an
\* answer that is a non-empty JSON object, the AttributeError that
\* extract_author_from_commit raises on its first key (nothing is returned).
LearnFrom(responses, page, identities, requested) ==
    IF page > LearnMaxPages
    THEN [identities |-> identities, requested |-> requested, raised |-> FALSE]
    ELSE LET response == responses[page]
             asked == Append(requested, page)
         IN IF response.returncode # 0
            THEN [identities |-> identities, requested |-> asked, raised |-> FALSE]
            ELSE IF ~response.json
            THEN [identities |-> identities, requested |-> asked, raised |-> FALSE]
            ELSE IF response.len = 0
            THEN [identities |-> identities, requested |-> asked, raised |-> FALSE]
            ELSE IF ~response.is_list
            THEN [identities |-> {}, requested |-> asked, raised |-> TRUE]
            ELSE IF response.len < PER_PAGE
            THEN [identities |-> identities \cup response.identities,
                  requested |-> asked, raised |-> FALSE]
            ELSE LearnFrom(responses, page + 1,
                           identities \cup response.identities, asked)

learn_author_identities_from_api(responses) == LearnFrom(responses, 1, {}, <<>>)

MAX_API_PAGES == 10

RECURSIVE ApiLoop_SkipsFailedPage(_, _, _, _, _)
\* Mutant of ApiLoop: a failed request is passed over and the next page is
\* asked for.
ApiLoop_SkipsFailedPage(responses, page, collected, requested, max_pages) ==
    IF page > max_pages THEN [collected |-> collected, requested |-> requested]
    ELSE LET response == responses[page]
             asked == Append(requested, page)
         IN IF response.returncode # 0 \/ ~response.json
            THEN ApiLoop_SkipsFailedPage(responses, page + 1, collected, asked,
                                         max_pages)
            ELSE IF response.len = 0
            THEN [collected |-> collected, requested |-> asked]
            ELSE IF response.len < PER_PAGE
            THEN [collected |-> Append(collected, page), requested |-> asked]
            ELSE ApiLoop_SkipsFailedPage(responses, page + 1,
                                         Append(collected, page), asked, max_pages)

RECURSIVE ApiLoop(_, _, _, _, _)
\* `while page <= max_pages` of get_commits_from_api from the given page on;
\* responses[p] is the answer to a request for page p.  The result is the
\* pages whose elements are in the list returned, in order, and the pages
\* requested.  The elements of any JSON value that is not empty are
\* appended: for an error object, its keys.
ApiLoop(responses, page, collected, requested, max_pages) ==
    IF page > max_pages THEN [collected |-> collected, requested |-> requested]
    ELSE LET response == responses[page]
             asked == Append(requested, page)
         IN IF response.returncode # 0
            THEN [collected |-> collected, requested |-> asked]
            ELSE IF ~response.json
            THEN [collected |-> collected, requested |-> asked]
            ELSE IF response.len = 0
            THEN [collected |-> collected, requested |-> asked]
            ELSE IF response.len < PER_PAGE
            THEN [collected |-> Append(collected, page), requested |-> asked]
            ELSE ApiLoop(responses, page + 1, Append(collected, page), asked,
                         max_pages)

\* get_commits_from_api, page by page.
get_commits_from_api_pages(responses, max_pages) ==
    ApiLoop(responses, 1, <<>>, <<>>, max_pages)

(***************************************************************************)
(* Per-commit statistics.                                                  *)
(***************************************************************************)
\* commit_data is {} when the detail cannot be retrieved, {"files": [...]} otherwise.
NoDetail == [has_files |-> FALSE, files |-> <<>>]

MIN_STATUS_PARTS == 2
MIN_NUMSTAT_PARTS == 3

\* Mutant of StatusMapGet: the map is never filled.
StatusMapGet_Default(status_lines, filename) == "modified"

\* status_map.get(filename, "modified"): the status of the last name-status
\* line with at least MIN_STATUS_PARTS fields whose second field is the name.
StatusMapGet(status_lines, filename) ==
    LET hits == {i \in 1..Len(status_lines) :
                    /\ Len(status_lines[i]) >= MIN_STATUS_PARTS
                    /\ status_lines[i][2] = filename}
    IN IF hits = {} THEN "modified"
       ELSE status_lines[CHOOSE i \in hits : \A j \in hits : j <= i][1]

\* Mutant of IntParses: "-" goes to int() too, and raises ValueError.
IntParses_DashFails(field) == field.kind = "int"

\* int(parts[k]) if parts[k] != "-" else 0 succeeds on digits and on "-".
IntParses(field) == field.kind \in {"int", "dash"}

\* The numstat lines that yield a file: enough fields, and no ValueError.
NumstatKept(numstat_lines) ==
    {i \in 1..Len(numstat_lines) :
        /\ Len(numstat_lines[i]) >= MIN_NUMSTAT_PARTS
        /\ IntParses(numstat_lines[i][1])
        /\ IntParses(numstat_lines[i][2])}

\* The file entry built from one numstat line.
NumstatFile(status_lines, parts) ==
    [additions |-> Num(parts[1].value),
     deletions |-> Num(parts[2].value),
     filename |-> parts[3],
     status |-> IF StatusMapGet(status_lines, parts[3]) = "A"
                THEN "added" ELSE "modified"]

RECURSIVE NumstatFiles(_, _, _)
\* The files list in the order of the numstat lines that yield a file.
NumstatFiles(status_lines, numstat_lines, i) ==
    IF i > Len(numstat_lines) THEN <<>>
    ELSE (IF i \in NumstatKept(numstat_lines)
          THEN <<NumstatFile(status_lines, numstat_lines[i])>>
          ELSE <<>>) \o NumstatFiles(status_lines, numstat_lines, i + 1)

\* The return code of the name-status command is not looked at; the one of
\* the numstat command is.
_get_commit_details_from_git(status_output, numstat_output, returncode) ==
    IF returncode # 0 THEN NoDetail
    ELSE [has_files |-> TRUE, files |-> NumstatFiles(status_output, numstat_output, 1)]

\* What the two git show commands print for a sha; a failed command prints nothing.
GitShowNameStatus(sha, status_ok) ==
    IF status_ok THEN NameStatusLines(ChangesOf(sha)) ELSE <<>>
GitShowNumstat(sha, numstat_ok) ==
    IF numstat_ok THEN NumstatLines(ChangesOf(sha)) ELSE <<>>

\* The API's answer to a commit detail request: a return code and a body
\* that is not JSON, or a JSON object with or without "files".
ApiDetail(files) == [returncode |-> 0, json |-> TRUE, has_files |-> TRUE, files |-> files]
ApiDetailFailed == [returncode |-> 1, json |-> FALSE, has_files |-> FALSE, files |-> <<>>]
ApiDetailNotJson == [returncode |-> 0, json |-> FALSE, has_files |-> FALSE, files |-> <<>>]
ApiDetailErrorObject == [returncode |-> 0, json |-> TRUE, has_files |-> FALSE, files |-> <<>>]

_get_commit_details_from_api(response) ==
    IF response.returncode = 0 /\ response.json
    THEN [has_files |-> response.has_files, files |-> response.files]
    ELSE NoDetail

\* isinstance(x, int): the value counts, anything else adds nothing.
IntOrZero(field) == IF field.kind = "int" THEN field.value ELSE 0

_calculate_commit_stats(commit_data, include_images) ==
    LET files_list == IF commit_data.has_files THEN commit_data.files ELSE <<>>
        n == Len(files_list)
    IN [additions |-> SeqSum([i \in 1..n |-> IntOrZero(files_list[i].additions)]),
        deletions |-> SeqSum([i \in 1..n |-> IntOrZero(files_list[i].deletions)]),
        images |-> Cardinality({i \in 1..n :
                       /\ include_images
                       /\ files_list[i].status = "added"
                       /\ is_image_file(files_list[i].filename)})]

_get_commit_timestamp(commit) == IF commit.date # EmptyStr THEN commit.date ELSE NowTs

\* Mutant of _find_cached_commit: a record with all-zero stats is taken for
\* a placeholder and passed over, so that the commit is computed again.
_find_cached_commit_SkipsZero(cache_data, repo_name, commit_url) ==
    LET items == DictItems(cache_data, repo_name)
        hits == {i \in 1..Len(items) :
                    /\ items[i].url = commit_url
                    /\ StatsOfItem(items[i]) # <<0, 0, 0>>}
    IN IF hits = {} THEN {} ELSE {items[CHOOSE i \in hits : \A j \in hits : i <= j]}

\* Mutant of _find_cached_commit: the url is compared with the sha field,
\* which no item has.
_find_cached_commit_Never(cache_data, repo_name, commit_url) == {}

\* The first cached item with the url, as a set: empty when there is none.
_find_cached_commit(cache_data, repo_name, commit_url) ==
    LET items == DictItems(cache_data, repo_name)
        hits == {i \in 1..Len(items) : items[i].url = commit_url}
    IN IF hits = {} THEN {} ELSE {items[SetMin(hits)]}

(***************************************************************************)
(* State.                                                                  *)
(*   cacheFile                 stats_cache/<repo_name>.json, per repo name *)
(*   identFile                 stats_cache/author_identities.json          *)
(*   KNOWN_AUTHOR_IDENTITIES   the module-level identity set               *)
(*   pc                        where analyze_commits stands                *)
(*   ctx, cache_data, all_commits, is_api_fallback                         *)
(*                             the locals of analyze_commits               *)
(*   authors_left              the identities get_commits_from_git_log has *)
(*                             still to query                              *)
(*   next_commit, totals       the loop of _process_all_commits            *)
(*   result                    the tuple analyze_commits returned          *)
(*   remote                    the commit listing the API holds for the    *)
(*                             repository while the run fetches            *)
(*   loaded                    history: the cached items as this run       *)
(*                             loaded them                                 *)
(*   local_shas                history: the shas the git log calls of this *)
(*                             run have printed                            *)
(*   last_saved                history: the records handed to the last     *)
(*                             save_cache, as a multiset                   *)
(*   prev                      history: the previous run's inputs and      *)
(*                             results, kept while the next run repeats it *)
(*   failed                    history: the shas whose numstat command     *)
(*                             failed in this run                          *)
(*   fn_in, fn_out             the argument and the result of a function   *)
(*                             applied on its own (SpecPure)               *)
(***************************************************************************)
VARIABLES cacheFile, identFile, KNOWN_AUTHOR_IDENTITIES, pc, ctx, cache_data,
          authors_left, all_commits, is_api_fallback, next_commit, totals,
          result, remote, loaded, local_shas, last_saved, prev, failed,
          evicted, fn_in, fn_out

disk == <<cacheFile, identFile>>
fetch_state == <<authors_left, all_commits, is_api_fallback, remote, local_shas>>
loop_state == <<next_commit, totals>>
pure_state == <<fn_in, fn_out>>
run_state == <<cacheFile, identFile, KNOWN_AUTHOR_IDENTITIES, pc, ctx, cache_data,
               authors_left, all_commits, is_api_fallback, next_commit, totals,
               result, remote, loaded, local_shas, last_saved, prev, failed,
               evicted>>
vars == <<cacheFile, identFile, KNOWN_AUTHOR_IDENTITIES, pc, ctx, cache_data,
          authors_left, all_commits, is_api_fallback, next_commit, totals,
          result, remote, loaded, local_shas, last_saved, prev, failed,
          evicted, fn_in, fn_out>>

NoCtx == [repo_path |-> FALSE, owner |-> "", repo_name |-> "", username |-> ""]
ZeroTotals == [additions |-> 0, deletions |-> 0, images |-> 0,
               cache_hits |-> 0, cache_misses |-> 0, processed |-> 0]
NoResult == [returned |-> FALSE, additions |-> 0, deletions |-> 0, images |-> 0]
NoPrev == [valid |-> FALSE]
NoSaved == [valid |-> FALSE]
NoInput == [fn |-> ""]
NoOutput == [applied |-> 0]

InitRun ==
    /\ cacheFile = [r \in RepoNames |-> NoFile]
    /\ identFile = {}
    /\ KNOWN_AUTHOR_IDENTITIES = {}
    /\ pc = "idle"
    /\ ctx = NoCtx
    /\ cache_data = EmptyDict
    /\ authors_left = {}
    /\ all_commits = <<>>
    /\ is_api_fallback = FALSE
    /\ next_commit = 0
    /\ totals = ZeroTotals
    /\ result = NoResult
    /\ remote = <<>>
    /\ loaded = <<>>
    /\ local_shas = {}
    /\ last_saved = NoSaved
    /\ prev = NoPrev
    /\ failed = {}
    /\ evicted = {}

Init == InitRun /\ fn_in = NoInput /\ fn_out = NoOutput

(***************************************************************************)
(* process_repos hands a repository to analyze_commits, which loads the    *)
(* repository's cache.  process_repos always passes a local clone path.    *)
(***************************************************************************)
analyze_commits_for(owners) ==
    /\ pc = "idle"
    /\ \E owner \in owners, repo_name \in RepoNames :
          /\ ctx' = [repo_path |-> TRUE, owner |-> owner, repo_name |-> repo_name,
                     username |-> "user"]
          /\ cache_data' = load_cache(cacheFile[repo_name])
          /\ loaded' = DictItems(load_cache(cacheFile[repo_name]), repo_name)
          /\ pc' = IF load_cache_raises(cacheFile[repo_name]) THEN "raised"
                    ELSE "loaded"
    /\ result' = NoResult
    /\ failed' = {}
    /\ UNCHANGED <<disk, KNOWN_AUTHOR_IDENTITIES, fetch_state, loop_state,
                   last_saved, prev>>
    /\ UNCHANGED <<evicted, pure_state>>

analyze_commits_load == analyze_commits_for(Owners)

(***************************************************************************)
(* _fetch_commits_with_fallback, first part: learn identities from the API *)
(* and persist the set when it grew.                                       *)
(***************************************************************************)
learn_identities ==
    /\ pc = "loaded"
    /\ \E new_identities \in SUBSET Identities :
          /\ KNOWN_AUTHOR_IDENTITIES' = KNOWN_AUTHOR_IDENTITIES \cup new_identities
          /\ identFile' =
                IF Cardinality(KNOWN_AUTHOR_IDENTITIES \cup new_identities)
                       > Cardinality(KNOWN_AUTHOR_IDENTITIES)
                THEN KNOWN_AUTHOR_IDENTITIES \cup new_identities
                ELSE identFile
    /\ pc' = "learned"
    /\ last_saved' = NoSaved
    /\ UNCHANGED <<cacheFile, ctx, cache_data, fetch_state, loop_state, result,
                   loaded, prev>>
    /\ UNCHANGED <<failed, evicted, pure_state>>

\* The two commit lists hold the same commits, each as often, in any order
\* (the git log calls visit the identities in no particular order).
SameCommits(a, b) ==
    /\ Len(a) = Len(b)
    /\ \A c \in Range(a) \cup Range(b) :
          Cardinality({i \in 1..Len(a) : a[i] = c})
              = Cardinality({i \in 1..Len(b) : b[i] = c})

\* The previous run's record survives only while this run repeats it: same
\* repository, same commits, same source.
PrevIfRepeated(commits, api_fallback) ==
    IF /\ prev.valid
       /\ prev.ctx = ctx
       /\ SameCommits(prev.all_commits, commits)
       /\ prev.is_api_fallback = api_fallback
    THEN prev ELSE NoPrev

(***************************************************************************)
(* get_commits_from_git_log, called when there is a local path: None when  *)
(* no identity is known, else one git log call per known identity.         *)
(***************************************************************************)
\* Mutant of git_log_start: with no known identity the user name alone is
\* the --author pattern.
git_log_start_UsesUsername ==
    /\ pc = "learned"
    /\ IF ctx.repo_path
       THEN /\ pc' = "git_log"
            /\ authors_left' = IF KNOWN_AUTHOR_IDENTITIES # {}
                               THEN KNOWN_AUTHOR_IDENTITIES ELSE {ctx.username}
       ELSE /\ pc' = "fallback"
            /\ UNCHANGED authors_left
    /\ UNCHANGED <<disk, KNOWN_AUTHOR_IDENTITIES, ctx, cache_data, all_commits,
                   is_api_fallback, remote, local_shas, loop_state, result, loaded,
                   last_saved, prev>>
    /\ UNCHANGED <<failed, evicted, pure_state>>

git_log_start ==
    /\ pc = "learned"
    /\ IF ctx.repo_path /\ KNOWN_AUTHOR_IDENTITIES # {}
       THEN /\ pc' = "git_log"
            /\ authors_left' = KNOWN_AUTHOR_IDENTITIES
       ELSE /\ pc' = "fallback"
            /\ UNCHANGED authors_left
    /\ UNCHANGED <<disk, KNOWN_AUTHOR_IDENTITIES, ctx, cache_data, all_commits,
                   is_api_fallback, remote, local_shas, loop_state, result, loaded,
                   last_saved, prev>>
    /\ UNCHANGED <<failed, evicted, pure_state>>

\* `for author in authors`: a set is visited in no particular order.  A run
\* lists at most MaxCommits commits.
git_log_author_of(outputs) ==
    /\ pc = "git_log"
    /\ \E author \in authors_left, output \in outputs :
          /\ Len(GitLogCall(all_commits, output)) <= MaxCommits
          /\ all_commits' = GitLogCall(all_commits, output)
          /\ local_shas' = local_shas \cup Range(output.shas)
          /\ authors_left' = authors_left \ {author}
    /\ UNCHANGED <<disk, KNOWN_AUTHOR_IDENTITIES, pc, ctx, cache_data,
                   is_api_fallback, remote, loop_state, result, loaded, last_saved,
                   prev>>
    /\ UNCHANGED <<failed, evicted, pure_state>>

git_log_author == git_log_author_of(GitOutputs)

\* Mutant of git_log_done: the `return commits, False` is missing, and the
\* API is asked whatever the git log gave.
git_log_done_AlwaysApi(views) ==
    /\ pc = "git_log"
    /\ authors_left = {}
    /\ pc' = "fallback"
    /\ UNCHANGED <<is_api_fallback, prev, remote>>
    /\ UNCHANGED <<disk, KNOWN_AUTHOR_IDENTITIES, ctx, cache_data, authors_left,
                   all_commits, local_shas, loop_state, result, loaded, last_saved>>
    /\ UNCHANGED <<failed, evicted, pure_state>>

\* Mutant of git_log_done: the two lists are merged, and a sha both have
\* takes the version with the later date.
git_log_done_PicksFresher(views) ==
    /\ pc = "git_log"
    /\ authors_left = {}
    /\ IF all_commits # <<>>
       THEN /\ is_api_fallback' = FALSE
            /\ prev' = PrevIfRepeated(all_commits, FALSE)
            /\ \E listing \in views :
                  /\ remote' = listing
                  /\ all_commits' =
                        [i \in 1..Len(all_commits) |->
                            IF \E k \in 1..Len(listing) :
                                  /\ listing[k].sha = all_commits[i].sha
                                  /\ listing[k].date > all_commits[i].date
                            THEN CHOOSE e \in Range(listing) : e.sha = all_commits[i].sha
                            ELSE all_commits[i]]
            /\ pc' = "fetched"
       ELSE /\ pc' = "fallback"
            /\ UNCHANGED <<is_api_fallback, prev, remote, all_commits>>
    /\ UNCHANGED <<disk, KNOWN_AUTHOR_IDENTITIES, ctx, cache_data, authors_left,
                   local_shas, loop_state, result, loaded, last_saved>>
    /\ UNCHANGED <<failed, evicted, pure_state>>

\* `if commits: return commits, False`; otherwise the API is the fallback.
\* The API is not asked for commits when the git log has some; remote records
\* the listing it holds meanwhile, one listing per set of shas in views.
git_log_done(views) ==
    /\ pc = "git_log"
    /\ authors_left = {}
    /\ IF all_commits # <<>>
       THEN /\ is_api_fallback' = FALSE
            /\ prev' = PrevIfRepeated(all_commits, FALSE)
            /\ \E listing \in views : remote' = listing
            /\ pc' = "fetched"
       ELSE /\ pc' = "fallback"
            /\ UNCHANGED <<is_api_fallback, prev, remote>>
    /\ UNCHANGED <<disk, KNOWN_AUTHOR_IDENTITIES, ctx, cache_data, authors_left,
                   all_commits, local_shas, loop_state, result, loaded, last_saved>>
    /\ UNCHANGED <<failed, evicted, pure_state>>

(***************************************************************************)
(* _fetch_commits_with_fallback, last part: the API, only when the git log *)
(* gave nothing.                                                           *)
(***************************************************************************)
fetch_api_of(listings) ==
    /\ pc = "fallback"
    /\ \E listing \in listings, request_ok \in BOOLEAN :
          LET api_commits == get_commits_from_api(listing, request_ok)
          IN /\ remote' = listing
             /\ all_commits' = api_commits
             /\ is_api_fallback' = (api_commits # <<>>)
             /\ prev' = PrevIfRepeated(api_commits, api_commits # <<>>)
    /\ pc' = "fetched"
    /\ UNCHANGED <<disk, KNOWN_AUTHOR_IDENTITIES, ctx, cache_data, authors_left,
                   local_shas, loop_state, result, loaded, last_saved>>
    /\ UNCHANGED <<failed, evicted, pure_state>>

fetch_api_fallback == fetch_api_of(CommitLists)

(***************************************************************************)
(* analyze_commits: no commits, return (0, 0, 0) before cleanup and save.  *)
(***************************************************************************)
\* Mutant of return_no_commits: the early return is missing, and the cache
\* is cleaned against the empty list and saved.
return_no_commits_CleansAndSaves ==
    /\ pc = "fetched"
    /\ all_commits = <<>>
    /\ cache_data' = clean_stale_cache(cache_data, all_commits, ctx.repo_name,
                                       is_api_fallback)
    /\ cacheFile' = [cacheFile EXCEPT ![ctx.repo_name] =
                         save_cache(clean_stale_cache(cache_data, all_commits,
                                                      ctx.repo_name, is_api_fallback))]
    /\ result' = [returned |-> TRUE, additions |-> 0, deletions |-> 0, images |-> 0]
    /\ pc' = "done"
    /\ remote' = <<>>
    /\ UNCHANGED <<identFile, KNOWN_AUTHOR_IDENTITIES, ctx, authors_left,
                   all_commits, is_api_fallback, local_shas, loop_state, loaded,
                   last_saved, prev>>
    /\ UNCHANGED <<failed, evicted, pure_state>>

\* Mutant of return_no_commits: the empty list is reported as an error.
return_no_commits_Raises ==
    /\ pc = "fetched"
    /\ all_commits = <<>>
    /\ pc' = "raised"
    /\ remote' = <<>>
    /\ UNCHANGED <<disk, KNOWN_AUTHOR_IDENTITIES, ctx, cache_data, authors_left,
                   all_commits, is_api_fallback, local_shas, loop_state, loaded,
                   last_saved, prev, result>>
    /\ UNCHANGED <<failed, evicted, pure_state>>

return_no_commits ==
    /\ pc = "fetched"
    /\ all_commits = <<>>
    /\ result' = [returned |-> TRUE, additions |-> 0, deletions |-> 0, images |-> 0]
    /\ pc' = "done"
    /\ remote' = <<>>
    /\ UNCHANGED <<disk, KNOWN_AUTHOR_IDENTITIES, ctx, cache_data, authors_left,
                   all_commits, is_api_fallback, local_shas, loop_state, loaded,
                   last_saved, prev>>
    /\ UNCHANGED <<failed, evicted, pure_state>>

(***************************************************************************)
(* analyze_commits: clean the stale cache entries.                         *)
(***************************************************************************)
\* The shas of the records that clean_stale_cache drops from the
\* repository's list: the stale_commits whose removal it reports.
Removed(before, after, repo_name) ==
    {extract_sha_from_cache_item(DictItems(before, repo_name)[i]) :
         i \in {j \in 1..Len(DictItems(before, repo_name)) :
                    \A k \in 1..Len(DictItems(after, repo_name)) :
                        DictItems(after, repo_name)[k].url
                            # DictItems(before, repo_name)[j].url}}

\* evicted is the record of the removals reported so far, kept when noting.
clean_cache_noting(noting) ==
    /\ pc = "fetched"
    /\ all_commits # <<>>
    /\ cache_data' = clean_stale_cache(cache_data, all_commits, ctx.repo_name,
                                       is_api_fallback)
    /\ evicted' = IF noting
                  THEN evicted \cup Removed(cache_data,
                                            clean_stale_cache(cache_data, all_commits,
                                                              ctx.repo_name,
                                                              is_api_fallback),
                                            ctx.repo_name)
                  ELSE evicted
    /\ next_commit' = 1
    /\ totals' = ZeroTotals
    /\ pc' = "processing"
    /\ remote' = <<>>
    /\ UNCHANGED <<disk, KNOWN_AUTHOR_IDENTITIES, ctx, authors_left, all_commits,
                   is_api_fallback, local_shas, result, loaded, last_saved, prev>>
    /\ UNCHANGED <<failed, pure_state>>

clean_cache == clean_cache_noting(FALSE)

(***************************************************************************)
(* _process_all_commits: one iteration of the loop.                        *)
(***************************************************************************)
\* Mutant of HitTotals: a cached commit is counted as a hit and its stats
\* are not added.
HitTotals_NotAdded(t, cached) ==
    [t EXCEPT !.cache_hits = @ + 1,
              !.processed = @ + 1]

\* The cache hit branch: the totals grow by the cached stats.
HitTotals(t, cached) ==
    [t EXCEPT !.additions = @ + cached.additions,
              !.deletions = @ + cached.deletions,
              !.images = @ + cached.images,
              !.cache_hits = @ + 1,
              !.processed = @ + 1]

\* The cache miss branch: the totals grow by the computed stats.
MissTotals(t, stats) ==
    [t EXCEPT !.additions = @ + stats.additions,
              !.deletions = @ + stats.deletions,
              !.images = @ + stats.images,
              !.cache_misses = @ + 1,
              !.processed = @ + 1]

\* Mutant of MissCache: the list of the repository is not created when the
\* cache has none (a first run, or every record was evicted), and the record
\* is dropped.
MissCache_NeedsList(cache, repo_name, commit_url, stats, commit, processed) ==
    IF repo_name \notin DOMAIN cache THEN cache
    ELSE DictSet(cache, repo_name,
                 Append(DictItems(cache, repo_name),
                        [index |-> processed,
                         url |-> commit_url,
                         additions |-> stats.additions,
                         deletions |-> stats.deletions,
                         images |-> stats.images,
                         timestamp |-> _get_commit_timestamp(commit)]))

\* Mutant of MissCache: a commit whose stats are all zero gets no record.
MissCache_SkipsZero(cache, repo_name, commit_url, stats, commit, processed) ==
    IF stats.additions = 0 /\ stats.deletions = 0 /\ stats.images = 0
    THEN cache
    ELSE DictSet(cache, repo_name,
                 Append(DictItems(cache, repo_name),
                        [index |-> processed,
                         url |-> commit_url,
                         additions |-> stats.additions,
                         deletions |-> stats.deletions,
                         images |-> stats.images,
                         timestamp |-> _get_commit_timestamp(commit)]))

\* The cache after a miss: the new record is appended under the repository key.
MissCache(cache, repo_name, commit_url, stats, commit, processed) ==
    DictSet(cache, repo_name,
            Append(DictItems(cache, repo_name),
                   [index |-> processed,
                    url |-> commit_url,
                    additions |-> stats.additions,
                    deletions |-> stats.deletions,
                    images |-> stats.images,
                    timestamp |-> _get_commit_timestamp(commit)]))

\* Mutant of HitCache: the hit record is overwritten with a recomputation
\* whose detail retrieval failed.
HitCache_Overwrites(cache, repo_name, cached) ==
    DictSet(cache, repo_name,
            [j \in 1..Len(cache[repo_name]) |->
                IF cache[repo_name][j].url = cached.url
                THEN [cache[repo_name][j] EXCEPT !.additions = 0, !.deletions = 0,
                                                 !.images = 0]
                ELSE cache[repo_name][j]])

\* The cache after a hit: untouched.
HitCache(cache, repo_name, cached) == cache

process_commit ==
    /\ pc = "processing"
    /\ next_commit <= Len(all_commits)
    /\ LET commit == all_commits[next_commit]
           sha == commit.sha
           commit_url == CommitUrl(ctx.owner, ctx.repo_name, sha)
           cached_data == _find_cached_commit(cache_data, ctx.repo_name, commit_url)
       IN IF sha = NoSha
          THEN UNCHANGED <<cache_data, totals, failed>>
          ELSE IF cached_data # {}
          THEN LET cached == CHOOSE c \in cached_data : TRUE
               IN /\ UNCHANGED failed
                  /\ totals' = HitTotals(totals, cached)
                  /\ cache_data' = HitCache(cache_data, ctx.repo_name, cached)
          ELSE \E status_ok \in BOOLEAN, detail_ok \in BOOLEAN :
                  LET commit_data ==
                          IF ctx.repo_path
                          THEN _get_commit_details_from_git(
                                   GitShowNameStatus(sha, status_ok),
                                   GitShowNumstat(sha, detail_ok),
                                   IF detail_ok THEN 0 ELSE 1)
                          ELSE _get_commit_details_from_api(
                                   IF detail_ok THEN ApiDetail(FilesOf(sha))
                                   ELSE ApiDetailFailed)
                      stats == _calculate_commit_stats(commit_data, TRUE)
                  IN /\ failed' = IF detail_ok THEN failed ELSE failed \cup {sha}
                     /\ totals' = MissTotals(totals, stats)
                     /\ cache_data' = MissCache(cache_data, ctx.repo_name, commit_url,
                                                stats, commit, totals.processed + 1)
    /\ next_commit' = next_commit + 1
    /\ UNCHANGED <<disk, KNOWN_AUTHOR_IDENTITIES, pc, ctx, fetch_state, result,
                   loaded, last_saved, prev>>
    /\ UNCHANGED <<evicted, pure_state>>

(***************************************************************************)
(* analyze_commits: save the cache and return the totals.  save_cache      *)
(* renumbers the in-memory records too (sorted() shares the dicts).        *)
(***************************************************************************)
\* The in-memory cache after sort_and_reindex_commits: same order, new index.
ReindexedInPlace(cache) ==
    [k \in DOMAIN cache |->
        [j \in 1..Len(cache[k]) |->
            [cache[k][j] EXCEPT !.index = SortedPos(cache[k], j)]]]

\* Mutant of save_and_return: the save is inside the loop, after any commit.
save_and_return_Early ==
    /\ pc = "processing"
    /\ cacheFile' = [cacheFile EXCEPT ![ctx.repo_name] = save_cache(cache_data)]
    /\ last_saved' = [valid |-> TRUE, repo_name |-> ctx.repo_name,
                      records |-> ContentBag(DictItems(cache_data, ctx.repo_name))]
    /\ cache_data' = ReindexedInPlace(cache_data)
    /\ result' = [returned |-> TRUE, additions |-> totals.additions,
                  deletions |-> totals.deletions, images |-> totals.images]
    /\ pc' = "done"
    /\ UNCHANGED <<identFile, KNOWN_AUTHOR_IDENTITIES, ctx, fetch_state, loop_state,
                   loaded, prev>>
    /\ UNCHANGED <<failed, evicted, pure_state>>

save_and_return ==
    /\ pc = "processing"
    /\ next_commit > Len(all_commits)
    /\ cacheFile' = [cacheFile EXCEPT ![ctx.repo_name] = save_cache(cache_data)]
    /\ last_saved' = [valid |-> TRUE, repo_name |-> ctx.repo_name,
                      records |-> ContentBag(DictItems(cache_data, ctx.repo_name))]
    /\ cache_data' = ReindexedInPlace(cache_data)
    /\ result' = [returned |-> TRUE, additions |-> totals.additions,
                  deletions |-> totals.deletions, images |-> totals.images]
    /\ pc' = "done"
    /\ UNCHANGED <<identFile, KNOWN_AUTHOR_IDENTITIES, ctx, fetch_state, loop_state,
                   loaded, prev>>
    /\ UNCHANGED <<failed, evicted, pure_state>>

(***************************************************************************)
(* Back in process_repos: the locals of the run are gone.  The observer    *)
(* either keeps a record of the run (to compare the next run with it) or   *)
(* keeps none.                                                             *)
(***************************************************************************)
RunRecord ==
    [valid |-> TRUE, ctx |-> ctx, all_commits |-> all_commits,
     is_api_fallback |-> is_api_fallback, result |-> result,
     doc |-> cacheFile[ctx.repo_name]]

finish_repo(record) ==
    /\ pc = "done"
    /\ prev' = record
    /\ pc' = "idle"
    /\ ctx' = NoCtx
    /\ cache_data' = EmptyDict
    /\ authors_left' = {}
    /\ all_commits' = <<>>
    /\ is_api_fallback' = FALSE
    /\ local_shas' = {}
    /\ next_commit' = 0
    /\ totals' = ZeroTotals
    /\ loaded' = <<>>
    /\ failed' = {}
    /\ UNCHANGED <<disk, KNOWN_AUTHOR_IDENTITIES, remote, result, last_saved>>
    /\ UNCHANGED <<evicted, pure_state>>

Next ==
    \/ analyze_commits_load
    \/ learn_identities
    \/ git_log_start
    \/ git_log_author
    \/ git_log_done(RemoteViews)
    \/ fetch_api_fallback
    \/ return_no_commits
    \/ clean_cache
    \/ process_commit
    \/ save_and_return
    \/ finish_repo(NoPrev)

Spec == Init /\ [][Next]_vars

(***************************************************************************)
(* The same program in an environment with faults: the API answers with an *)
(* error object, and the process is interrupted.                           *)
(***************************************************************************)
\* curl -s exits with 0 on an HTTP error, and the body is a JSON object such
\* as {"message": "Not Found"}.  learn_author_identities_from_api iterates
\* over it: each element is a key, a str, and extract_author_from_commit
\* calls .get on it.  The AttributeError is not a JSONDecodeError: it leaves
\* analyze_commits.
learn_identities_error_object ==
    /\ pc = "loaded"
    /\ pc' = "raised"
    /\ UNCHANGED <<disk, KNOWN_AUTHOR_IDENTITIES, ctx, cache_data, fetch_state,
                   loop_state, result, loaded, last_saved, prev, failed, evicted, pure_state>>

\* The same answer to get_commits_from_api: the keys of the object are
\* appended to all_commits, the list is non-empty and is returned as the API
\* fallback data; commit.get then raises AttributeError in
\* _extract_commit_timestamps or in _process_all_commits, before any write.
fetch_api_error_object ==
    /\ pc = "fallback"
    /\ pc' = "raised"
    /\ UNCHANGED <<disk, KNOWN_AUTHOR_IDENTITIES, ctx, cache_data, fetch_state,
                   loop_state, result, loaded, last_saved, prev, failed, evicted, pure_state>>

\* The process is interrupted (KeyboardInterrupt, or killed) during the
\* analysis of a repository.  save_cache opens the file with mode "w", which
\* empties it, and json.dump writes the document piece by piece: an
\* interrupt in between leaves a cut-off document.
interrupt ==
    /\ pc \in {"loaded", "learned", "git_log", "fallback", "fetched", "processing"}
    /\ pc' = "interrupted"
    /\ \E writing \in BOOLEAN :
          cacheFile' =
              IF writing /\ pc = "processing" /\ next_commit > Len(all_commits)
              THEN [cacheFile EXCEPT ![ctx.repo_name] = InvalidJson]
              ELSE cacheFile
    /\ UNCHANGED <<identFile, KNOWN_AUTHOR_IDENTITIES, ctx, cache_data, fetch_state,
                   loop_state, result, loaded, last_saved, prev, failed, evicted, pure_state>>

\* The script is started again: main reloads the identities, and the locals
\* of the run that ended are gone.
restart ==
    /\ pc \in {"raised", "interrupted"}
    /\ pc' = "idle"
    /\ KNOWN_AUTHOR_IDENTITIES' = identFile
    /\ ctx' = NoCtx
    /\ cache_data' = EmptyDict
    /\ authors_left' = {}
    /\ all_commits' = <<>>
    /\ is_api_fallback' = FALSE
    /\ remote' = <<>>
    /\ local_shas' = {}
    /\ next_commit' = 0
    /\ totals' = ZeroTotals
    /\ loaded' = <<>>
    /\ failed' = {}
    /\ last_saved' = NoSaved
    /\ prev' = NoPrev
    /\ UNCHANGED <<disk, result, evicted, pure_state>>

NextFaults ==
    \/ analyze_commits_load
    \/ learn_identities
    \/ learn_identities_error_object
    \/ git_log_start
    \/ git_log_author
    \/ git_log_done({<<>>})
    \/ fetch_api_fallback
    \/ fetch_api_error_object
    \/ return_no_commits
    \/ clean_cache
    \/ process_commit
    \/ save_and_return
    \/ finish_repo(NoPrev)
    \/ interrupt
    \/ restart

SpecFaults == Init /\ [][NextFaults]_vars

(***************************************************************************)
(* The same program, observed over pairs of consecutive runs: the record   *)
(* of each run is kept, and the API listing is not observed in git-log     *)
(* mode.                                                                   *)
(***************************************************************************)
NextRerun ==
    \/ analyze_commits_load
    \/ learn_identities
    \/ git_log_start
    \/ git_log_author
    \/ git_log_done({<<>>})
    \/ fetch_api_fallback
    \/ return_no_commits
    \/ clean_cache
    \/ process_commit
    \/ save_and_return
    \/ finish_repo(RunRecord)

SpecRerun == Init /\ [][NextRerun]_vars

(***************************************************************************)
(* The same program, with the API's listing observed while the git log is  *)
(* read, dates as the API prints them.                                     *)
(***************************************************************************)
NextVersions ==
    \/ analyze_commits_load
    \/ learn_identities
    \/ git_log_start
    \/ git_log_author
    \/ git_log_done(RemoteVersions)
    \/ fetch_api_fallback
    \/ return_no_commits
    \/ clean_cache
    \/ process_commit
    \/ save_and_return
    \/ finish_repo(NoPrev)

SpecVersions == Init /\ [][NextVersions]_vars

(***************************************************************************)
(* The same program over several invocations of the script: main empties   *)
(* the identity set and fills it from the identity file.                   *)
(* load_author_identities returns the empty set when the file cannot be    *)
(* opened or read (OSError) or does not decode (JSONDecodeError); the file *)
(* is left as it is.                                                       *)
(***************************************************************************)
main_load_identities ==
    /\ pc = "idle"
    /\ \E load_ok \in BOOLEAN :
          KNOWN_AUTHOR_IDENTITIES' = IF load_ok THEN identFile ELSE {}
    /\ last_saved' = NoSaved
    /\ prev' = NoPrev
    /\ UNCHANGED <<disk, pc, ctx, cache_data, fetch_state, loop_state, result,
                   loaded, failed, evicted, pure_state>>

NextRuns ==
    \/ main_load_identities
    \/ analyze_commits_load
    \/ learn_identities
    \/ git_log_start
    \/ git_log_author
    \/ git_log_done({<<>>})
    \/ fetch_api_fallback
    \/ return_no_commits
    \/ clean_cache
    \/ process_commit
    \/ save_and_return
    \/ finish_repo(NoPrev)

SpecRuns == Init /\ [][NextRuns]_vars

(***************************************************************************)
(* The same program over repositories of two owners.  process_repos takes  *)
(* the upstream's owner and name for a fork whose upstream it finds, and   *)
(* ORIGIN_USERNAME with the repository's own name otherwise: for a fork    *)
(* whose upstream lookup fails, for a repository of the user's own, and    *)
(* after the user was renamed.  The cache is loaded and saved under the    *)
(* name alone, so that one name under two owners is one cache file.        *)
(***************************************************************************)
CloneOwners == {"own", "upstream"}

\* The commits the two repositories have between them.
SharedShas == 1..MaxSharedSha
SharedGitOutputs ==
    {GitFail} \cup {[returncode |-> 0, shas |-> s] : s \in SeqsUpTo(SharedShas, MaxCommits)}
SharedCommitLists ==
    {[i \in 1..Len(s) |-> CommitObj(s[i])] : s \in SeqsUpTo(SharedShas, MaxCommits)}

NextOwners ==
    \/ analyze_commits_for(CloneOwners)
    \/ learn_identities
    \/ git_log_start
    \/ git_log_author_of(SharedGitOutputs)
    \/ git_log_done({<<>>})
    \/ fetch_api_of(SharedCommitLists)
    \/ return_no_commits
    \/ clean_cache
    \/ process_commit
    \/ save_and_return
    \/ finish_repo(NoPrev)

SpecOwners == Init /\ [][NextOwners]_vars

(***************************************************************************)
(* The same program with the removals of clean_stale_cache on record, so   *)
(* that a commit that was removed from the cache and is listed again can   *)
(* be told from one that is new.                                           *)
(***************************************************************************)
NextHistory ==
    \/ analyze_commits_load
    \/ learn_identities
    \/ git_log_start
    \/ git_log_author
    \/ git_log_done({<<>>})
    \/ fetch_api_fallback
    \/ return_no_commits
    \/ clean_cache_noting(TRUE)
    \/ process_commit
    \/ save_and_return
    \/ finish_repo(NoPrev)

SpecHistory == Init /\ [][NextHistory]_vars

(***************************************************************************)
(* The functions applied on their own, on arguments drawn from bounded     *)
(* sets: load_cache on the contents a cache file can have, and the         *)
(* computation of a commit's statistics (detail retrieval followed by      *)
(* _calculate_commit_stats) on the changes a commit can make.              *)
(***************************************************************************)
FileNames == {LogoPng, LogoPngUpper, ReadmeMd}

\* The changes one file can undergo.
FileChanges ==
    {Change(f, c, TRUE, 0, 0) : f \in FileNames, c \in {"added", "modified", "renamed"}}
        \cup {Change(f, c, FALSE, plus, 1) :
                 f \in FileNames, c \in {"added", "modified", "renamed"},
                 plus \in {0, 3}}

\* The changes of a commit: each file once.
ChangeLists ==
    {l \in SeqsUpTo(FileChanges, MaxFiles) :
        \A i, j \in 1..Len(l) : l[i].filename = l[j].filename => i = j}

\* A small cache, for the documents save_cache writes.
SampleRecord(sha, additions) ==
    [index |-> sha, url |-> CommitUrl("own", "repo", sha), additions |-> additions,
     deletions |-> 1, images |-> 0, timestamp |-> TsOf(sha)]
SampleCaches ==
    {EmptyDict} \cup
    {[k \in {"repo"} |-> l] :
        l \in {<<SampleRecord(1, 3)>>, <<SampleRecord(3, 5), SampleRecord(2, 0)>>}}

\* The contents a cache file can have.
CacheFileContents ==
    {NoFile, InvalidJson, Unreadable, JsonArray, MetadataArray, EmptyObject}
        \cup {save_cache(c) : c \in SampleCaches}

\* The answers a page request for identities can get: a failure, a body that
\* is not JSON, an error object, an empty list, a short page and a full page.
LearnResponses ==
    {ApiPageFailed, ApiPageNotJson, ApiPageErrorObject, ApiPage(0, {})}
        \cup {ApiPage(len, ids) : len \in {1, PER_PAGE}, ids \in SUBSET Identities}

\* What one git log call can do: fail, or print up to two (sha, date) line
\* pairs and possibly one more line.
GitLogPrints ==
    {[returncode |-> 1, lines |-> <<>>]}
        \cup {[returncode |-> 0, lines |-> l] : l \in SeqsUpTo({1, 2}, 5)}

PureInputs ==
    {[fn |-> "load_cache", doc |-> d] : d \in CacheFileContents}
        \cup {[fn |-> "stats", changes |-> l] : l \in ChangeLists}
        \cup {[fn |-> "learn", responses |-> r] :
                 r \in [1..(LearnMaxPages + 1) -> LearnResponses]}
        \cup {[fn |-> "git_log", outputs |-> o] :
                 o \in SeqsUpTo(GitLogPrints, Cardinality(Identities))}
        \cup {[fn |-> "api_pages",
                pages |-> [q \in 1..(MAX_API_PAGES + 1) |->
                              IF q = n + 1 THEN t ELSE ApiPage(PER_PAGE, {})]] :
                 n \in 0..(MAX_API_PAGES + 1),
                 t \in {ApiPageFailed, ApiPageNotJson, ApiPageErrorObject,
                        ApiPage(0, {}), ApiPage(1, {})}}

InitPure == InitRun /\ fn_in \in PureInputs /\ fn_out = NoOutput

\* The ways a detail retrieval can go: the source, and what its commands
\* or its request do.
Retrievals ==
    {[source |-> "git", status_ok |-> a, numstat_ok |-> b, response |-> "none"] :
        a \in BOOLEAN, b \in BOOLEAN}
        \cup {[source |-> "api", status_ok |-> TRUE, numstat_ok |-> TRUE, response |-> r] :
                 r \in {"ok", "failed", "not_json", "error_object"}}

\* The detail a retrieval yields for a commit making the changes.
Retrieve(changes, how) ==
    IF how.source = "git"
    THEN _get_commit_details_from_git(
             IF how.status_ok THEN NameStatusLines(changes) ELSE <<>>,
             IF how.numstat_ok THEN NumstatLines(changes) ELSE <<>>,
             IF how.numstat_ok THEN 0 ELSE 1)
    ELSE _get_commit_details_from_api(
             CASE how.response = "ok" -> ApiDetail(ApiFiles(changes))
               [] how.response = "failed" -> ApiDetailFailed
               [] how.response = "not_json" -> ApiDetailNotJson
               [] OTHER -> ApiDetailErrorObject)

\* Whether the retrieval got the commit's detail in full.
Retrieved(how) ==
    IF how.source = "git" THEN how.status_ok /\ how.numstat_ok ELSE how.response = "ok"

Computation(changes, how) ==
    [how |-> how, stats |-> _calculate_commit_stats(Retrieve(changes, how), TRUE)]

apply_load_cache ==
    /\ fn_in.fn = "load_cache"
    /\ fn_out.applied = 0
    /\ fn_out' = [applied |-> 1,
                  raised |-> load_cache_raises(fn_in.doc),
                  value |-> load_cache(fn_in.doc)]
    /\ UNCHANGED <<run_state, fn_in>>

apply_commit_stats ==
    /\ fn_in.fn = "stats"
    /\ fn_out.applied = 0
    /\ \E how \in Retrievals :
          fn_out' = [applied |-> 1, first |-> Computation(fn_in.changes, how)]
    /\ UNCHANGED <<run_state, fn_in>>

apply_commit_stats_again ==
    /\ fn_in.fn = "stats"
    /\ fn_out.applied = 1
    /\ \E how \in Retrievals :
          fn_out' = [applied |-> 2, first |-> fn_out.first,
                    second |-> Computation(fn_in.changes, how)]
    /\ UNCHANGED <<run_state, fn_in>>

apply_learn_identities ==
    /\ fn_in.fn = "learn"
    /\ fn_out.applied = 0
    /\ fn_out' = [applied |-> 1,
                  learned |-> learn_author_identities_from_api(fn_in.responses)]
    /\ UNCHANGED <<run_state, fn_in>>

apply_git_log ==
    /\ fn_in.fn = "git_log"
    /\ fn_out.applied = 0
    /\ fn_out' = [applied |-> 1, log |-> get_commits_from_git_log(fn_in.outputs)]
    /\ UNCHANGED <<run_state, fn_in>>

apply_api_pages ==
    /\ fn_in.fn = "api_pages"
    /\ fn_out.applied = 0
    /\ fn_out' = [applied |-> 1,
                  listing |-> get_commits_from_api_pages(fn_in.pages, MAX_API_PAGES)]
    /\ UNCHANGED <<run_state, fn_in>>

NextPure ==
    \/ apply_load_cache
    \/ apply_api_pages
    \/ apply_git_log
    \/ apply_learn_identities
    \/ apply_commit_stats
    \/ apply_commit_stats_again

SpecPure == InitPure /\ [][NextPure]_vars

(***************************************************************************)
(* Properties.                                                             *)
(***************************************************************************)
CurrentItems == DictItems(cache_data, ctx.repo_name)
FileItems(repo_name) ==
    IF cacheFile[repo_name].exists THEN DictItems(cacheFile[repo_name].data, repo_name)
    ELSE <<>>
CanonicalShas == {all_commits[i].sha : i \in 1..Len(all_commits)}
CanonicalDates == {all_commits[i].date : i \in 1..Len(all_commits)} \ {EmptyStr}
\* clean_stale_cache has run in this run.
Cleaned == pc \in {"processing", "done"} /\ all_commits # <<>>
\* The run has saved the cache.
Saved == pc = "done" /\ all_commits # <<>>
HasUrl(items, url) == \E i \in 1..Len(items) : items[i].url = url
\* The record is older than every dated commit of the canonical list.
OlderThanCanonical(r) ==
    /\ CanonicalDates # {}
    /\ \A d \in CanonicalDates : r.timestamp < d
IsSortedByTimestamp(items) ==
    \A i, j \in 1..Len(items) : i < j => items[i].timestamp <= items[j].timestamp
IsIndexed(items) == \A i \in 1..Len(items) : items[i].index = i

\* C1 (as stated): after clean_stale_cache, whichever source produced the
\* canonical list, every loaded record whose timestamp is older than the
\* minimum canonical timestamp is still in the cache.
C1_RetentionAnySource ==
    Cleaned =>
        \A i \in 1..Len(loaded) :
            OlderThanCanonical(loaded[i]) => HasUrl(CurrentItems, loaded[i].url)

\* C1 (amended): in API-fallback mode, after clean_stale_cache and up to the
\* save, every loaded record whose timestamp is older than the minimum
\* canonical timestamp is still in the cache, whether or not its sha is canonical.
C1_RetentionApiFallback ==
    (Cleaned /\ is_api_fallback) =>
        \A i \in 1..Len(loaded) :
            OlderThanCanonical(loaded[i]) =>
                /\ HasUrl(CurrentItems, loaded[i].url)
                /\ Saved => HasUrl(FileItems(ctx.repo_name), loaded[i].url)

\* C1 witness: API-fallback cleanup that evicts a record and keeps an older
\* one whose sha is not canonical.
C1_Witness ==
    /\ Saved /\ is_api_fallback
    /\ Len(CurrentItems) < Len(loaded) + Len(all_commits)
    /\ \E i, j \in 1..Len(loaded) :
          /\ OlderThanCanonical(loaded[i])
          /\ extract_sha_from_cache_item(loaded[i]) \notin CanonicalShas
          /\ HasUrl(FileItems(ctx.repo_name), loaded[i].url)
          /\ ~HasUrl(CurrentItems, loaded[j].url)

\* C2: after clean_stale_cache, in either mode, a loaded record that is not
\* older than the minimum canonical timestamp and whose sha is not canonical
\* is in the cache no more, nor in the document the run saves.
C2_Eviction ==
    Cleaned =>
        \A i \in 1..Len(loaded) :
            (/\ ~OlderThanCanonical(loaded[i])
             /\ extract_sha_from_cache_item(loaded[i]) \notin CanonicalShas)
            => /\ ~HasUrl(CurrentItems, loaded[i].url)
               /\ Saved => ~HasUrl(FileItems(ctx.repo_name), loaded[i].url)

\* C2 witness: an API-fallback run has saved after evicting a record whose
\* timestamp equals the minimum canonical timestamp.
C2_Witness ==
    /\ Saved /\ is_api_fallback
    /\ \E i \in 1..Len(loaded) :
          /\ loaded[i].timestamp \in CanonicalDates
          /\ \A d \in CanonicalDates : loaded[i].timestamp <= d
          /\ extract_sha_from_cache_item(loaded[i]) \notin CanonicalShas
          /\ ~HasUrl(FileItems(ctx.repo_name), loaded[i].url)

\* C3 (as stated): when the git log and the API both have commits, the
\* canonical list has exactly one entry for every sha of either.
C3_MergeComplete ==
    (pc = "fetched" /\ local_shas # {} /\ remote # <<>>) =>
        /\ CanonicalShas = local_shas \cup {remote[i].sha : i \in 1..Len(remote)}
        /\ \A i, j \in 1..Len(all_commits) :
              all_commits[i].sha = all_commits[j].sha => i = j

\* C3 (amended): when the git log has commits, the canonical list has
\* exactly one entry for every sha the git log printed and no other entry,
\* whatever the API lists; the run is not an API fallback.
C3_LocalOnly ==
    (pc = "fetched" /\ local_shas # {}) =>
        /\ CanonicalShas = local_shas
        /\ \A i, j \in 1..Len(all_commits) :
              all_commits[i].sha = all_commits[j].sha => i = j
        /\ ~is_api_fallback

\* C3 witness: both sources have commits, the API lists a sha the git log
\* does not, and two identities were queried.
C3_Witness ==
    /\ pc = "fetched"
    /\ Cardinality(local_shas) = 2
    /\ Cardinality(KNOWN_AUTHOR_IDENTITIES) = 2
    /\ \E i \in 1..Len(remote) : remote[i].sha \notin local_shas

\* C4: after clean_stale_cache in git-log mode the cached shas are a subset
\* of the canonical shas; in API-fallback mode a loaded record older than the
\* API's minimum timestamp is kept, and a loaded record not older than it is
\* kept exactly when its sha is canonical.
C4_CleanupByMode ==
    (pc = "processing" /\ next_commit = 1) =>
        IF ~is_api_fallback
        THEN {extract_sha_from_cache_item(x) : x \in Range(CurrentItems)}
                 \subseteq CanonicalShas
        ELSE \A i \in 1..Len(loaded) :
                (loaded[i] \in Range(CurrentItems))
                    <=> \/ OlderThanCanonical(loaded[i])
                        \/ extract_sha_from_cache_item(loaded[i]) \in CanonicalShas

\* C4 witness: a git-log cleanup has removed a record older than every
\* canonical commit.
C4_Witness ==
    /\ pc = "processing" /\ next_commit = 1 /\ ~is_api_fallback
    /\ CurrentItems # <<>>
    /\ \E i \in 1..Len(loaded) :
          OlderThanCanonical(loaded[i]) /\ loaded[i] \notin Range(CurrentItems)

\* Every loaded record is one the cleanup evicts: its sha is not canonical
\* and it is not an out-of-range record of an API-fallback run.
EveryLoadedIsStale ==
    \A i \in 1..Len(loaded) :
        /\ extract_sha_from_cache_item(loaded[i]) \notin CanonicalShas
        /\ (is_api_fallback => ~OlderThanCanonical(loaded[i]))

\* C5 as stated: no key is mapped to an empty list, and a cache of one record
\* with a canonical list of one other, later commit ends the cleanup with no
\* entry for the repository, whichever source the canonical list came from.
C5_ExampleAnySource ==
    /\ \A k \in DOMAIN cache_data : cache_data[k] # <<>>
    /\ (/\ pc = "processing" /\ next_commit = 1
        /\ Len(loaded) = 1 /\ Len(all_commits) = 1
        /\ extract_sha_from_cache_item(loaded[1]) # all_commits[1].sha
        /\ loaded[1].timestamp < all_commits[1].date)
          => ctx.repo_name \notin DOMAIN cache_data

\* C5 (amended): no key of the cache mapping is mapped to an empty list, in
\* memory or in a saved document; a cleanup that evicts every record removes
\* the key.  The records it evicts are those whose sha is not canonical, less
\* the records older than the canonical minimum when the list came from the
\* API fallback: the one-record example ends with no entry in git-log mode.
C5_NoEmptyKey ==
    /\ \A k \in DOMAIN cache_data : cache_data[k] # <<>>
    /\ \A r \in RepoNames :
          cacheFile[r].exists =>
              \A k \in DOMAIN cacheFile[r].data : cacheFile[r].data[k] # <<>>
    /\ (pc = "processing" /\ next_commit = 1 /\ loaded # <<>> /\ EveryLoadedIsStale)
          => ctx.repo_name \notin DOMAIN cache_data

\* C5 witness: the cache held one record, the git log now has one other,
\* later commit, and the cleanup left no key for the repository.
C5_Witness ==
    /\ pc = "processing" /\ next_commit = 1 /\ ~is_api_fallback
    /\ Len(loaded) = 1 /\ Len(all_commits) = 1
    /\ loaded[1].timestamp < all_commits[1].date
    /\ ctx.repo_name \notin DOMAIN cache_data

\* Every record the program holds for a repository name, in memory or on disk.
AllRecords ==
    UNION {Range(FileItems(r)) : r \in RepoNames}
        \cup UNION {Range(cache_data[k]) : k \in DOMAIN cache_data}

\* C6: in every step, a record that is in the cache (in memory or on disk)
\* before and after the step has the same (additions, deletions, images).
C6_RecordImmutable ==
    [][\A x \in AllRecords : \A y \in AllRecords' :
           x.url = y.url => StatsOfItem(x) = StatsOfItem(y)]_vars

\* C6 witness: a later run hits a record that an earlier run saved with
\* non-zero stats.
C6_Witness ==
    /\ pc = "processing"
    /\ totals.cache_hits > 0
    /\ totals.additions > 0
    /\ \E x \in Range(FileItems(ctx.repo_name)) :
          x.additions > 0 /\ x \in Range(loaded) /\ HasUrl(CurrentItems, x.url)

\* C7: a run that repeats the previous run (same repository, same canonical
\* commit list from the same source) returns the same totals, has no cache
\* miss, keeps the loaded records as they are and leaves the same document.
C7_RerunReproducible ==
    (pc = "done" /\ prev.valid) =>
        /\ result = prev.result
        /\ cacheFile[ctx.repo_name] = prev.doc
        /\ totals.cache_misses = 0
        /\ SameRecords(loaded, CurrentItems)

\* C7 witness: a repeated API-fallback run over two commits, one of which
\* has non-zero stats, has finished with two hits.
C7_Witness ==
    /\ pc = "done" /\ prev.valid
    /\ is_api_fallback
    /\ totals.cache_hits = 2
    /\ result.additions > 0
    /\ Len(loaded) > 2

\* C8: in every saved document the records of every key are in ascending
\* timestamp order and numbered 1..N in that order.
C8_SavedSortedIndexed ==
    \A r \in RepoNames :
        cacheFile[r].exists =>
            \A k \in DOMAIN cacheFile[r].data :
                /\ IsSortedByTimestamp(cacheFile[r].data[k])
                /\ IsIndexed(cacheFile[r].data[k])

\* C8 witness: the cache just saved was out of timestamp order in memory.
C8_Witness ==
    /\ Saved
    /\ ~IsSortedByTimestamp(CurrentItems)
    /\ Len(FileItems(ctx.repo_name)) = Len(CurrentItems)

RECURSIVE FieldSum(_, _)
\* The sum of a field over a list of records.
FieldSum(items, field) ==
    IF items = <<>> THEN 0
    ELSE (CASE field = "additions" -> Head(items).additions
            [] field = "deletions" -> Head(items).deletions
            [] OTHER -> Head(items).images) + FieldSum(Tail(items), field)

\* C9: in every saved document the metadata block gives the number of
\* records of data and the sums of their additions, deletions and images.
C9_MetadataConsistent ==
    \A r \in RepoNames :
        cacheFile[r].exists =>
            LET doc == cacheFile[r]
                items == IF r \in DOMAIN doc.data THEN doc.data[r] ELSE <<>>
            IN /\ DOMAIN doc.data \subseteq {r}
               /\ doc.metadata.total_commits = Len(items)
               /\ doc.metadata.total_additions = FieldSum(items, "additions")
               /\ doc.metadata.total_deletions = FieldSum(items, "deletions")
               /\ doc.metadata.total_images = FieldSum(items, "images")

\* C9 witness: a saved document with three records and non-zero sums.
C9_Witness ==
    /\ Saved
    /\ cacheFile[ctx.repo_name].metadata.total_commits = 3
    /\ cacheFile[ctx.repo_name].metadata.total_images > 0
    /\ cacheFile[ctx.repo_name].metadata.total_deletions > 0

\* C10: the records load_cache returns for a repository are, as a multiset
\* and index aside, the records handed to the save_cache before it, in
\* ascending timestamp order and numbered 1..N.
C10_SaveLoadRoundTrip ==
    (pc = "loaded" /\ last_saved.valid /\ last_saved.repo_name = ctx.repo_name) =>
        /\ ContentBag(loaded) = last_saved.records
        /\ IsSortedByTimestamp(loaded)
        /\ IsIndexed(loaded)
        /\ DOMAIN cache_data = {ctx.repo_name}

\* C10 witness: a load that follows a save of three records, two of which
\* share a timestamp.
C10_Witness ==
    /\ pc = "loaded" /\ last_saved.valid
    /\ Len(loaded) = 3
    /\ \E i, j \in 1..Len(loaded) : i # j /\ loaded[i].timestamp = loaded[j].timestamp

\* C11: saving again the cache a run has just saved, and saving what
\* load_cache reads from a saved document, both produce the document that
\* is on disk, records with equal timestamps included.
C11_SaveIdempotent ==
    /\ Saved => save_cache(cache_data) = cacheFile[ctx.repo_name]
    /\ \A r \in RepoNames :
          cacheFile[r].exists => save_cache(load_cache(cacheFile[r])) = cacheFile[r]

\* C11 witness: a run has saved a document in which two records have the
\* same timestamp, one of them computed in this run.
C11_Witness ==
    /\ Saved
    /\ totals.cache_misses > 0
    /\ \E i, j \in 1..Len(FileItems(ctx.repo_name)) :
          i # j /\ FileItems(ctx.repo_name)[i].timestamp
                      = FileItems(ctx.repo_name)[j].timestamp

\* C12 (as stated): whenever the run is interrupted, every cache file that
\* exists holds a complete document: sorted, numbered, with metadata that
\* agrees with its records.  No cut-off document is ever on disk.
C12_InterruptLeavesDocument ==
    \A r \in RepoNames :
        cacheFile[r].exists =>
            /\ cacheFile[r].shape = "document"
            /\ save_cache(load_cache(cacheFile[r])) = cacheFile[r]

\* C13 (as stated): whatever the API, the commands and the cache file
\* answer, no exception leaves analyze_commits.
C13_NoExceptionEscapes == pc # "raised"

\* C14 (as stated): load_cache applied to any content of the cache file
\* raises nothing, and returns the empty cache unless the content is a
\* document save_cache wrote.
C14_LoadNeverRaises ==
    (fn_in.fn = "load_cache" /\ fn_out.applied = 1) =>
        /\ ~fn_out.raised
        /\ (fn_in.doc \notin {save_cache(c) : c \in SampleCaches})
              => fn_out.value = EmptyDict

\* The items hold a record for the sha of this repository with all-zero stats.
HasZeroRecord(items, sha) ==
    \E i \in 1..Len(items) :
        /\ items[i].url = CommitUrl(ctx.owner, ctx.repo_name, sha)
        /\ items[i].additions = 0 /\ items[i].deletions = 0 /\ items[i].images = 0

ExpectedStats(changes) ==
    [additions |-> SeqSum([i \in 1..Len(changes) |->
                      IF changes[i].binary THEN 0 ELSE changes[i].plus]),
     deletions |-> SeqSum([i \in 1..Len(changes) |->
                      IF changes[i].binary THEN 0 ELSE changes[i].minus]),
     images |-> Cardinality({i \in 1..Len(changes) :
                      /\ changes[i].change = "added"
                      /\ changes[i].filename \in {LogoPng, LogoPngUpper}})]

TextChanges(changes) == SelectSeqOf(changes, {c \in Range(changes) : ~c.binary})

\* The binary files of the list that are added and have an image extension.
BinaryImagesAdded(changes) ==
    {i \in 1..Len(changes) :
        /\ changes[i].binary
        /\ changes[i].change = "added"
        /\ changes[i].filename \in {LogoPng, LogoPngUpper}}

C19_SingleSourceVerbatim ==
    pc = "fetched" =>
        IF is_api_fallback
        THEN /\ all_commits = remote
             /\ all_commits # <<>>
             /\ local_shas = {}
        ELSE /\ CanonicalShas = local_shas
             /\ local_shas = {} => all_commits = <<>>

\* C19 witness: identities are known, the git log printed nothing, and the
\* API returned two commits, the newer first; the run uses them in that order.
C19_Witness ==
    /\ pc = "fetched" /\ is_api_fallback
    /\ KNOWN_AUTHOR_IDENTITIES # {}
    /\ Len(all_commits) = 2
    /\ all_commits[1].date > all_commits[2].date
    /\ all_commits = remote

\* C20: when neither source yields commits, analyze_commits raises nothing
\* and returns (0, 0, 0): the step that returns can be taken, the run is not
\* an API fallback, and the cache is neither cleaned nor saved.
C20_NoCommitsFound ==
    /\ pc # "raised"
    /\ (pc = "fetched" /\ all_commits = <<>>) => ENABLED return_no_commits
    /\ (pc = "done" /\ all_commits = <<>>) =>
          /\ result = [returned |-> TRUE, additions |-> 0, deletions |-> 0, images |-> 0]
          /\ ~is_api_fallback
          /\ ~last_saved.valid
          /\ cache_data = load_cache(cacheFile[ctx.repo_name])

\* C20 witness: identities are known, the git log printed nothing, the API
\* returned nothing, and the run returned with the repository's cached
\* records still in place.
C20_Witness ==
    /\ pc = "done" /\ all_commits = <<>>
    /\ result.returned
    /\ KNOWN_AUTHOR_IDENTITIES # {}
    /\ FileItems(ctx.repo_name) # <<>>
    /\ CurrentItems = FileItems(ctx.repo_name)

\* C21 (as stated): once the commits are fetched, a sha that the git log and
\* the API's listing both have is in the canonical list with the later of
\* its two authorship dates.
C21_FresherVersionWins ==
    pc = "fetched" =>
        \A k \in 1..Len(remote) :
            remote[k].sha \in local_shas =>
                \E i \in 1..Len(all_commits) :
                    /\ all_commits[i].sha = remote[k].sha
                    /\ all_commits[i].date >= remote[k].date
                    /\ all_commits[i].date >= TsOf(remote[k].sha)

\* C21 (amended): when the git log has commits, every canonical entry is the
\* git log's version of its sha, with the date the git log printed, whether
\* the API's version of the sha has an earlier, an equal or a later date.
C21_LocalVersionWins ==
    (pc = "fetched" /\ local_shas # {}) =>
        /\ \A i \in 1..Len(all_commits) :
              /\ all_commits[i].sha \in local_shas
              /\ all_commits[i] = CommitObj(all_commits[i].sha)
        /\ \A k \in 1..Len(remote) :
              remote[k].sha \in local_shas =>
                  CommitObj(remote[k].sha) \in Range(all_commits)

\* C21 witness: the git log and the API both list a sha, the API with a
\* later date and another with an earlier one; the canonical entries carry
\* the git log's dates.
C21_Witness ==
    /\ pc = "fetched"
    /\ Len(all_commits) = 2
    /\ \E k, m \in 1..Len(remote) :
          /\ remote[k].sha \in local_shas /\ remote[k].date > TsOf(remote[k].sha)
          /\ remote[m].sha \in local_shas /\ remote[m].date < TsOf(remote[m].sha)
          /\ CommitObj(remote[k].sha) \in Range(all_commits)

\* C22: in every run, the step that asks the API for the commit listing is
\* taken only when the git log has been tried and has given nothing (there
\* is no local path, or no identity is known, or no identity is left to ask
\* and no query printed a commit); and from the fetch on, is_api_fallback is
\* TRUE exactly when the run has commits and none of them is from the git log.
C22_ApiOnlyAfterGitLog ==
    /\ [][fetch_api_fallback =>
             /\ all_commits = <<>>
             /\ local_shas = {}
             /\ \/ ~ctx.repo_path
                \/ KNOWN_AUTHOR_IDENTITIES = {}
                \/ authors_left = {}
             /\ is_api_fallback' = (all_commits' # <<>>)
             /\ all_commits' \in {remote', <<>>}]_vars
    /\ [](pc \in {"fetched", "processing", "done"} =>
             (is_api_fallback <=> (all_commits # <<>> /\ local_shas = {})))

\* C22 witness: two identities are known, every git log query failed or
\* printed nothing, and the API then gave the one commit the run uses.
C22_Witness ==
    /\ pc = "processing"
    /\ is_api_fallback
    /\ Cardinality(KNOWN_AUTHOR_IDENTITIES) = 2
    /\ local_shas = {}
    /\ Len(all_commits) = 1

\* C23 (as stated): the identity file never loses an identity it held, also
\* when an invocation fails to load it and then learns new identities; and
\* within an invocation the known-identity set never loses an identity (only
\* the start of main, which reloads the set, may replace it).
C23_IdentitiesNeverLost ==
    [][/\ identFile \subseteq identFile'
       /\ \/ pc = "idle" /\ pc' = "idle"
          \/ KNOWN_AUTHOR_IDENTITIES \subseteq KNOWN_AUTHOR_IDENTITIES']_vars

\* C24 (as stated): when a page request of learn_author_identities_from_api
\* fails, on whichever page, the set returned is empty, and no page is
\* requested twice or after the failure.
C24_EmptyOnAnyFailure ==
    (fn_in.fn = "learn" /\ fn_out.applied = 1) =>
        LET requested == fn_out.learned.requested
            last == requested[Len(requested)]
        IN /\ requested = [i \in 1..Len(requested) |-> i]
           /\ PageFailed(fn_in.responses[last]) => fn_out.learned.identities = {}

\* C24 (amended): when a page request of learn_author_identities_from_api
\* fails, the set returned holds the identities of the pages before the
\* failing one, which is the empty set when the first page fails; pages
\* 1, 2, .. are requested once each, at most three, none after the failure.
C24_EarlierPagesOnFailure ==
    (fn_in.fn = "learn" /\ fn_out.applied = 1) =>
        LET requested == fn_out.learned.requested
            last == requested[Len(requested)]
        IN /\ requested = [i \in 1..Len(requested) |-> i]
           /\ 1 <= Len(requested) /\ Len(requested) <= LearnMaxPages
           /\ \A p \in 1..(last - 1) : ~PageFailed(fn_in.responses[p])
           /\ PageFailed(fn_in.responses[last]) =>
                 /\ ~fn_out.learned.raised
                 /\ fn_out.learned.identities
                       = UNION {fn_in.responses[p].identities : p \in 1..(last - 1)}
                 /\ last = 1 => fn_out.learned.identities = {}

\* C24 witness: the first page is full and gives an identity, the request for
\* the second page fails, the third would have succeeded and is not asked for.
C24_Witness ==
    /\ fn_in.fn = "learn" /\ fn_out.applied = 1
    /\ fn_in.responses[1] = ApiPage(PER_PAGE, {"id1"})
    /\ fn_in.responses[2] = ApiPageFailed
    /\ fn_in.responses[3] = ApiPage(1, {"id2"})
    /\ fn_out.learned.identities = {"id1"}
    /\ fn_out.learned.requested = <<1, 2>>

\* C25: with an empty known-identity set the local history is not read: the
\* step after the identity learning goes to the API fallback and leaves the
\* commit list alone, git log queries are issued only while identities are
\* known, no sha is printed by a git log in such a run, the API request can
\* then be made, and no exception is raised.
C25_NoIdentitySkipsGitLog ==
    /\ [][(pc = "learned" /\ KNOWN_AUTHOR_IDENTITIES = {}) =>
             /\ pc' = "fallback"
             /\ all_commits' = all_commits
             /\ local_shas' = local_shas]_vars
    /\ [](pc = "git_log" => KNOWN_AUTHOR_IDENTITIES # {})
    /\ []((pc \in {"fallback", "fetched", "processing", "done"}
             /\ KNOWN_AUTHOR_IDENTITIES = {}) => local_shas = {})
    /\ [](pc = "fallback" => ENABLED fetch_api_fallback)
    /\ [](pc # "raised")

\* C25 witness: no identity is known, the git log was skipped, and the run
\* processes the two commits the API gave.
C25_Witness ==
    /\ pc = "processing"
    /\ KNOWN_AUTHOR_IDENTITIES = {}
    /\ ctx.repo_path
    /\ is_api_fallback
    /\ Len(all_commits) = 2

\* The (sha, date) line pairs of one git log output, in the order printed.
PairsOf(lines) ==
    [k \in 1..(Len(lines) \div 2) |-> [sha |-> lines[2 * k - 1], date |-> lines[2 * k]]]

RECURSIVE PrintedPairs(_)
\* The line pairs of the calls that succeeded, in the order printed.
PrintedPairs(outputs) ==
    IF outputs = <<>> THEN <<>>
    ELSE (IF Head(outputs).returncode = 0 THEN PairsOf(Head(outputs).lines) ELSE <<>>)
             \o PrintedPairs(Tail(outputs))

\* C26: for any outputs of the git log calls, the list that
\* get_commits_from_git_log builds holds each printed sha once and no other
\* sha, each with the date of the first line pair that printed it.
C26_GitLogDeduplicates ==
    (fn_in.fn = "git_log" /\ fn_out.applied = 1) =>
        LET commits == fn_out.log.commits
            printed == PrintedPairs(fn_in.outputs)
        IN /\ \A i, j \in 1..Len(commits) : commits[i].sha = commits[j].sha => i = j
           /\ {commits[i].sha : i \in 1..Len(commits)}
                 = {printed[k].sha : k \in 1..Len(printed)}
           /\ \A i \in 1..Len(commits) :
                 \E k \in 1..Len(printed) :
                    /\ printed[k] = commits[i]
                    /\ \A m \in 1..(k - 1) : printed[m].sha # commits[i].sha
           /\ fn_out.log.none = (printed = <<>>)

\* C26 witness: two identities; the first call prints sha 1 with date 2 and
\* sha 2, the second prints sha 1 again with date 1 and a line without a
\* partner: the list is sha 1 with date 2, then sha 2.
C26_Witness ==
    /\ fn_in.fn = "git_log" /\ fn_out.applied = 1
    /\ fn_in.outputs = << [returncode |-> 0, lines |-> <<1, 2, 2, 1>>],
                          [returncode |-> 0, lines |-> <<1, 1, 2>>] >>
    /\ fn_out.log.commits = << [sha |-> 1, date |-> 2], [sha |-> 2, date |-> 1] >>

\* The answer is a list of PER_PAGE commits: the loop goes on to the next page.
FullPage(response) ==
    response.returncode = 0 /\ response.json /\ response.len >= PER_PAGE

\* C27: get_commits_from_api requests pages 1, 2, .. once each, at most
\* MAX_API_PAGES of them, and its last request is the first whose answer is
\* not a full page (a failure, an empty page, a short page) or the request
\* for page MAX_API_PAGES; what it returns is the pages before a failed or
\* empty one, and the short page too when it stops at a short page.
C27_ApiReadBounded ==
    (fn_in.fn = "api_pages" /\ fn_out.applied = 1) =>
        LET requested == fn_out.listing.requested
            collected == fn_out.listing.collected
            k == Len(requested)
        IN /\ requested = [i \in 1..k |-> i]
           /\ 1 <= k /\ k <= MAX_API_PAGES
           /\ \A q \in 1..(k - 1) : FullPage(fn_in.pages[q])
           /\ k < MAX_API_PAGES => ~FullPage(fn_in.pages[k])
           /\ collected =
                 [i \in 1..(IF PageFailed(fn_in.pages[k]) \/ fn_in.pages[k].len = 0
                            THEN k - 1 ELSE k) |-> i]

\* C27 witness: two full pages, then a failed request, then full pages
\* again: three requests, and the two pages are returned.
C27_Witness ==
    /\ fn_in.fn = "api_pages" /\ fn_out.applied = 1
    /\ FullPage(fn_in.pages[1]) /\ FullPage(fn_in.pages[2])
    /\ fn_in.pages[3] = ApiPageFailed
    /\ FullPage(fn_in.pages[4])
    /\ fn_out.listing = [collected |-> <<1, 2>>, requested |-> <<1, 2, 3>>]

\* The place of a step of analyze_commits in the order load, fetch (learn,
\* git log, API fallback), reconcile, compute, save.
PcRank(p) ==
    CASE p = "idle" -> 0
      [] p = "loaded" -> 1
      [] p = "learned" -> 2
      [] p = "git_log" -> 3
      [] p = "fallback" -> 4
      [] p = "fetched" -> 5
      [] p = "processing" -> 6
      [] p = "done" -> 7
      [] OTHER -> 8

\* C28: the analysis of a repository only moves forward through load,
\* fetch, reconcile, compute, save, and a new analysis begins only when the
\* one before has ended; a cache file is written only by the step taken when
\* every canonical commit has been processed, hence once per analysis, and it
\* is the file of the repository under analysis; until then the file reads
\* as it did at the load, and once saved it has a record for every canonical
\* commit.
C28_SaveAfterAllCommits ==
    /\ [][pc' # pc =>
             \/ PcRank(pc') > PcRank(pc)
             \/ pc' = "idle" /\ PcRank(pc) >= 7]_vars
    /\ [][ctx' # ctx => (pc = "idle" \/ pc' = "idle")]_vars
    /\ [][cacheFile' # cacheFile =>
             /\ pc = "processing" /\ pc' # "processing"
             /\ next_commit > Len(all_commits)
             /\ \A r \in RepoNames \ {ctx.repo_name} : cacheFile'[r] = cacheFile[r]]_vars
    /\ [](pc \in {"loaded", "learned", "git_log", "fallback", "fetched", "processing"}
             => DictItems(load_cache(cacheFile[ctx.repo_name]), ctx.repo_name) = loaded)
    /\ [](Saved =>
             \A i \in 1..Len(all_commits) :
                 HasUrl(DictItems(load_cache(cacheFile[ctx.repo_name]), ctx.repo_name),
                        CommitUrl(ctx.owner, ctx.repo_name, all_commits[i].sha)))

\* C28 witness: a run loaded records, evicted one, hit one, computed one
\* and then saved.
C28_Witness ==
    /\ pc = "done"
    /\ Len(all_commits) = 2
    /\ totals.cache_hits = 1 /\ totals.cache_misses = 1
    /\ \E i \in 1..Len(loaded) : ~HasUrl(CurrentItems, loaded[i].url)
    /\ last_saved.valid
    /\ Len(FileItems(ctx.repo_name)) = Len(CurrentItems)

\* The saved record of a commit of the repository under analysis.
SavedRecordOf(sha) ==
    CHOOSE x \in Range(FileItems(ctx.repo_name)) :
        x.url = CommitUrl(ctx.owner, ctx.repo_name, sha)

\* The sum of a field of the saved records of the canonical commits, each
\* as often as the canonical list names it.
CanonicalSum(field) ==
    SeqSum([i \in 1..Len(all_commits) |->
               CASE field = "additions" -> SavedRecordOf(all_commits[i].sha).additions
                 [] field = "deletions" -> SavedRecordOf(all_commits[i].sha).deletions
                 [] OTHER -> SavedRecordOf(all_commits[i].sha).images])

\* The saved records whose commit is not canonical in this run.
RetainedRecords ==
    SelectSeqOf(FileItems(ctx.repo_name),
                {x \in Range(FileItems(ctx.repo_name)) :
                     extract_sha_from_cache_item(x) \notin CanonicalShas})

\* C29: the totals a run returns after saving are the sums of the records
\* of its canonical commits; the saved metadata adds to them the records
\* retained for commits that are not canonical (when no sha is listed
\* twice), and there are such records only in API-fallback mode, all older
\* than the API's window: the returned totals never exceed the metadata
\* totals then, and in git-log mode the two agree.
C29_TotalsOfCanonicalCommits ==
    Saved =>
        LET metadata == cacheFile[ctx.repo_name].metadata
            unique == \A i, j \in 1..Len(all_commits) :
                          all_commits[i].sha = all_commits[j].sha => i = j
        IN /\ result.returned
           /\ result.additions = CanonicalSum("additions")
           /\ result.deletions = CanonicalSum("deletions")
           /\ result.images = CanonicalSum("images")
           /\ unique =>
                 /\ metadata.total_additions
                       = result.additions + FieldSum(RetainedRecords, "additions")
                 /\ metadata.total_deletions
                       = result.deletions + FieldSum(RetainedRecords, "deletions")
                 /\ metadata.total_images
                       = result.images + FieldSum(RetainedRecords, "images")
           /\ RetainedRecords # <<>> =>
                 /\ is_api_fallback
                 /\ \A x \in Range(RetainedRecords) : OlderThanCanonical(x)

\* C29 witness: an API-fallback run has saved; a record older than the
\* API's window is retained with non-zero additions, one canonical commit
\* was a hit, and the returned additions are smaller than the metadata's.
C29_Witness ==
    /\ Saved /\ is_api_fallback
    /\ totals.cache_hits > 0
    /\ result.additions > 0
    /\ RetainedRecords # <<>>
    /\ result.additions < cacheFile[ctx.repo_name].metadata.total_additions

\* C30: a run whose canonical list is empty writes nothing: a cache file
\* changes only in a run that has commits, the step taken on the empty list
\* ends the run and leaves the file and the loaded cache alone, and at the
\* end the file and the in-memory cache hold the records as loaded, none
\* evicted, in their order.
C30_EmptyListLeavesCache ==
    /\ [][cacheFile' # cacheFile => all_commits # <<>>]_vars
    /\ [][(pc = "fetched" /\ all_commits = <<>>) =>
             /\ pc' = "done"
             /\ cacheFile' = cacheFile
             /\ cache_data' = cache_data]_vars
    /\ []((pc = "done" /\ all_commits = <<>>) =>
             /\ FileItems(ctx.repo_name) = loaded
             /\ CurrentItems = loaded
             /\ cacheFile[ctx.repo_name].exists = (loaded # <<>>))

\* C30 witness: no identity is known and the API gave nothing; the run
\* ended with the two records of the file as they were loaded.
C30_Witness ==
    /\ pc = "done" /\ all_commits = <<>>
    /\ KNOWN_AUTHOR_IDENTITIES = {}
    /\ Len(loaded) = 2
    /\ FileItems(ctx.repo_name) = loaded

\* The cache as loaded holds an all-zero record for the sha.  Every commit of
\* the history changes lines, so such a record was written by an earlier run
\* whose detail retrieval failed.
LoadedZeroRecord(sha) == HasZeroRecord(loaded, sha)

\* C31: while a run processes a commit for which it loaded a zero record, the
\* step is a cache hit: no detail is fetched (the misses and the failed
\* retrievals stay as they are), the totals get nothing from the commit, and
\* the cache is not touched; when such a run has saved, the file holds the
\* zero record still, and only that record for the commit.
C31_ZeroRecordIsReused ==
    /\ [][(/\ pc = "processing"
           /\ next_commit <= Len(all_commits)
           /\ LoadedZeroRecord(all_commits[next_commit].sha)) =>
             /\ next_commit' = next_commit + 1
             /\ totals'.cache_hits = totals.cache_hits + 1
             /\ totals'.cache_misses = totals.cache_misses
             /\ totals'.additions = totals.additions
             /\ totals'.deletions = totals.deletions
             /\ totals'.images = totals.images
             /\ failed' = failed
             /\ cache_data' = cache_data]_vars
    /\ [](Saved =>
             \A sha \in CanonicalShas :
                 LoadedZeroRecord(sha) =>
                     /\ HasZeroRecord(FileItems(ctx.repo_name), sha)
                     /\ Cardinality({i \in 1..Len(FileItems(ctx.repo_name)) :
                            FileItems(ctx.repo_name)[i].url
                                = CommitUrl(ctx.owner, ctx.repo_name, sha)}) = 1)

\* C31 witness: a run over one commit, whose zero record an earlier run
\* wrote, has saved: one hit, no miss, totals (0, 0, 0), the zero record in
\* the file.
C31_Witness ==
    /\ Saved
    /\ Len(all_commits) = 1
    /\ LoadedZeroRecord(all_commits[1].sha)
    /\ totals.cache_hits = 1 /\ totals.cache_misses = 0
    /\ result = [returned |-> TRUE, additions |-> 0, deletions |-> 0, images |-> 0]
    /\ HasZeroRecord(FileItems(ctx.repo_name), all_commits[1].sha)

\* The records of the repository's cache file that carry the given sha.
FileRecordsOfSha(repo_name, sha) ==
    {i \in 1..Len(FileItems(repo_name)) :
        extract_sha_from_cache_item(FileItems(repo_name)[i]) = sha}

\* C32: after any sequence of analysis runs that starts without a cache, a
\* repository's cache file holds at most one record per sha.
C32_OneRecordPerSha ==
    \A repo_name \in RepoNames, sha \in Shas :
        Cardinality(FileRecordsOfSha(repo_name, sha)) <= 1

\* The contents of the records of the list whose url names the owner.
RecordsOfOwner(items, owner) ==
    {Content(items[i]) : i \in {j \in 1..Len(items) : items[j].url[4] = owner}}

\* C34: no step of the analysis of a repository evicts, alters or overwrites
\* a record that the cache file holds for a repository of another owner.
C34_OtherOwnersRecordsKept ==
    [][\A repo_name \in RepoNames, owner \in CloneOwners :
           owner # ctx.owner =>
               RecordsOfOwner(FileItems(repo_name), owner)
                   \subseteq RecordsOfOwner(FileItems(repo_name)', owner)]_vars

\* The url of a commit of the repository under analysis.
UrlOf(sha) == CommitUrl(ctx.owner, ctx.repo_name, sha)

\* The commit was removed from the cache by an earlier run, and the cache
\* this run loaded has no record of it.
Reappears(sha) == sha \in evicted /\ ~HasUrl(loaded, UrlOf(sha))

\* The record the cache holds for the commit was computed from the commit's
\* detail: the lines of its changes, or zeros when the retrieval failed.
FreshRecordIn(items, sha, failures) ==
    \E i \in 1..Len(items) :
        /\ items[i].url = UrlOf(sha)
        /\ items[i].timestamp = TsOf(sha)
        /\ IF sha \in failures
           THEN StatsOfItem(items[i]) = <<0, 0, 0>>
           ELSE /\ items[i].additions = ExpectedStats(ChangesOf(sha)).additions
                /\ items[i].deletions = ExpectedStats(ChangesOf(sha)).deletions

\* C33: when a run over a non-empty canonical list has saved, the cache file
\* holds a record for every canonical commit that has a sha; and a commit
\* that an earlier run removed from the cache and that is listed again is a
\* miss when the loop first meets it: its detail is retrieved and a record
\* computed from it is appended, which is the record the file holds after
\* the save.
C33_CanonicalCommitsCovered ==
    /\ [](Saved =>
             \A sha \in CanonicalShas \ {NoSha} :
                 /\ HasUrl(FileItems(ctx.repo_name), UrlOf(sha))
                 /\ Reappears(sha) =>
                        /\ totals.cache_misses >= 1
                        /\ FreshRecordIn(FileItems(ctx.repo_name), sha, failed))
    /\ [][(/\ pc = "processing"
           /\ next_commit <= Len(all_commits)
           /\ Reappears(all_commits[next_commit].sha)
           /\ ~HasUrl(CurrentItems, UrlOf(all_commits[next_commit].sha))) =>
             /\ totals'.cache_misses = totals.cache_misses + 1
             /\ totals'.cache_hits = totals.cache_hits
             /\ Len(DictItems(cache_data', ctx.repo_name)) = Len(CurrentItems) + 1
             /\ FreshRecordIn(DictItems(cache_data', ctx.repo_name),
                              all_commits[next_commit].sha, failed')]_vars

\* C33 witness: a run has saved whose list names a commit that an earlier
\* run removed from the cache, next to a commit whose record was loaded: one
\* miss, one hit, and the file holds a record of each.
C33_Witness ==
    /\ Saved
    /\ Len(all_commits) = 2
    /\ Reappears(all_commits[1].sha)
    /\ HasUrl(loaded, UrlOf(all_commits[2].sha))
    /\ all_commits[1].sha \notin failed
    /\ totals.cache_misses = 1 /\ totals.cache_hits = 1
    /\ FreshRecordIn(FileItems(ctx.repo_name), all_commits[1].sha, failed)
    /\ HasUrl(FileItems(ctx.repo_name), UrlOf(all_commits[2].sha))

====
